---- MODULE Spec2Model ----
(***************************************************************************)
(* Order saga of the e-commerce serverless API.                            *)
(*                                                                         *)
(* The model follows src/src/orders/handler.py (the synchronous            *)
(* orchestrator: validate -> charge -> persist -> publish -> enqueue) and  *)
(* the consumers that write to the same tables, src/src/fraud/handler.py   *)
(* and src/src/inventory/handler.py.                                       *)
(*                                                                         *)
(* Money is counted in cents, time in ticks of 50 ms, fraud scores in      *)
(* hundredths.  External systems (catalog table, orders table, payment     *)
(* gateway, SNS topic, SQS queue) are state variables; the outcome of each *)
(* call to them is an input of the step that makes the call.               *)
(***************************************************************************)
EXTENDS Integers, Sequences, FiniteSets, TLC

(***************************************************************************)
(* Bounds of the model.                                                    *)
(***************************************************************************)
MaxItems == 2          \* longest item list of a request
MaxInvocations == 2    \* POST /orders invocations handled by the process
MaxFraudRecords == 1   \* Fraud-Check records delivered to the fraud consumer
MaxRedeliveries == 2   \* the same, when the fraud consumer runs on its own
MaxInventoryRecords == 2  \* Inventory-Adjustment records delivered
MaxStreamRecords == 2  \* change records delivered to the stream processor
MaxEventRecords == 2   \* event records delivered to each event consumer
MaxListed == 23        \* orders in the table when GET /orders is served

(***************************************************************************)
(* Program constants (ticks of 50 ms).                                     *)
(***************************************************************************)
PAYMENT_TIMEOUT == 200     \* requests.post(..., timeout=10)
LAMBDA_TIMEOUT == 100      \* "5s timeout" of the invocation
SLOW_DELAY_COLD == 70      \* httpbin.org/delay/3.5
SLOW_DELAY_WARM == 120     \* httpbin.org/delay/6
FAST_DELAY_MIN == 16       \* random.uniform(0.8, 1.5), lower end
FAST_DELAY_MAX == 30       \* random.uniform(0.8, 1.5), upper end
RISK_THRESHOLD == 70       \* RISK_THRESHOLD default '0.7' (hundredths)
INITIAL_STOCK == 3         \* stock of a seeded product: random.randint(0, 200)
HIGH_RISK_SCORE == 70     \* 0.7, the literal the stream processor compares with
QUERY_LIMIT == 20         \* Limit of the query of list_orders
HIGH_AMOUNT == 100000      \* amount > 1000 (cents)
MID_AMOUNT == 50000        \* amount > 500 (cents)

(***************************************************************************)
(* Input domains.                                                          *)
(***************************************************************************)
NoCustomer == "none"                       \* body.get('customer_id') is None
Customers == {"c1", "new-c2"}
NewCustomers == {"new-c2"}                 \* customer_id.startswith('new-')
CustomerInputs == {"c1", NoCustomer}       \* customer_id of a request
Catalog == {"p1", "p2"}                    \* product ids present in the catalog

\* A money value carries its Python type: the default JSON encoder accepts a
\* float and raises TypeError on a Decimal.  v is the amount in cents.
Dec(cents) == [t |-> "Decimal", v |-> cents]
Flt(cents) == [t |-> "float", v |-> cents]

\* product['price'] as boto3 returns it from the products table (9.99, 5.00)
Price == [p \in Catalog |-> IF p = "p1" THEN Dec(999) ELSE Dec(500)]

\* items a request can carry; "px" is not in the catalog
ItemInputs == {[product_id |-> "p1", quantity |-> 2],
               [product_id |-> "p2", quantity |-> 1],
               [product_id |-> "px", quantity |-> 1]}
ItemLists == UNION {[1 .. n -> ItemInputs] : n \in 0 .. MaxItems}
Requests == [customer_id : CustomerInputs, items : ItemLists]

\* order ids; they stand for uuid4 strings
OrderIds == 1 .. (MaxInvocations + MaxFraudRecords)

PayOutcomes == {"ok", "rejected", "timeout", "error", "badbody"}
FastDelays == {FAST_DELAY_MIN, FAST_DELAY_MAX}
CallOutcomes == {"ok", "fail"}

\* Fraud-Check records: the message of the SQS record, the value
\* random.uniform(-0.1, 0.1) takes for it (hundredths), and the outcome of
\* the update of the orders table
FraudAmounts == {10000, 150000}
PaymentMethods == {"card", "crypto"}
Jitters == {-10, -5, 0, 5, 10}
FraudRecords == [order_id : OrderIds, customer_id : Customers,
                 amount : FraudAmounts, payment_method : {"card"},
                 jitter : {0}, update : CallOutcomes]
FraudBatches == UNION {[1 .. n -> FraudRecords] : n \in 1 .. MaxFraudRecords}

VARIABLES
    orders,         \* orders table: set of items (records of attributes)
    topic,          \* Order-Created Events accepted by the SNS topic, in order
    queue,          \* Inventory-Adjustment Messages accepted by the SQS queue
    IS_COLD_START,  \* module-level flag of the orders process
    sinceInit,      \* "lt5" while time.time() - COLD_START_TIME < 5, then "ge5"
    invocations,    \* number of POST /orders invocations started
    pc,             \* position of the current invocation
    req,            \* its request body
    is_cold,        \* is_cold computed by lambda_handler for it
    idx,            \* index of the next item to validate
    validated_items,
    total_amount,
    env,            \* outcomes of the external calls made so far
    calls,          \* external calls made so far, in order (operation names)
    lookups,        \* product ids looked up in the catalog so far, in order
    minted,         \* ids uuid4 has returned in this process
    order_id,       \* uuid generated for it (0 before)
    elapsed,        \* ticks spent in it
    charges,        \* charges the gateway reported as successful during it
    before,         \* orders table, topic and queue when it started
    result,         \* response returned by lambda_handler
    fraudDelivered, \* Fraud-Check records delivered to the fraud consumer
    fraudResult,    \* response of the fraud consumer's last run
    fraudBatch,     \* event['Records'] of that run
    fraudBefore,    \* orders table when that run started
    fraudUpdates,   \* update_item calls of that run, in order
    products,       \* products table: the stock attributes of each item
    invDelivered,   \* Inventory-Adjustment records delivered
    invResult,      \* response of the inventory consumer's last run
    invBatch,       \* event['Records'] of that run
    invBefore,      \* products table when that run started
    statusUpdates,  \* last status written to each Order by a downstream system
    configured,     \* environment of the deployment (RISK_THRESHOLD)
    streamDelivered,   \* change records delivered to the stream processor
    streamBatch,       \* event['Records'] of its last run
    streamEffects,     \* what that run did, one entry per call, in order
    streamResult,      \* its response
    emailDelivered,    \* records delivered to the email consumer
    emailBatch,        \* event['Records'] of its last run
    emailLog,          \* what that run did for each record, in order
    emailResult,       \* its response
    analyticsDelivered,  \* records delivered to the analytics consumer
    analyticsBatch,      \* event['Records'] of its last run
    analyticsLog,        \* what that run did for each record, in order
    analyticsResult,     \* its response
    workers         \* concurrent inventory workers: message and position of each
vars == <<orders, topic, queue, IS_COLD_START,
          sinceInit, invocations, pc, req, is_cold, idx, validated_items,
          total_amount, env, calls, lookups, minted, order_id, elapsed,
          charges, before, result, fraudDelivered, fraudResult, fraudBatch,
          fraudBefore, fraudUpdates, products, invDelivered, invResult,
          invBatch, invBefore, statusUpdates, configured, streamDelivered,
          streamBatch, streamEffects, streamResult, emailDelivered,
          emailBatch, emailLog, emailResult, analyticsDelivered,
          analyticsBatch, analyticsLog, analyticsResult, workers>>

storeVars == <<orders, topic, queue>>
fraudVars == <<fraudDelivered, fraudResult, fraudBatch, fraudBefore,
               fraudUpdates>>
stockVars == <<products, invDelivered, invResult, invBatch, invBefore,
               workers>>
streamVars == <<streamDelivered, streamBatch, streamEffects, streamResult>>
emailVars == <<emailDelivered, emailBatch, emailLog, emailResult>>
analyticsVars == <<analyticsDelivered, analyticsBatch, analyticsLog,
                   analyticsResult>>
sinkVars == <<streamVars, emailVars, analyticsVars>>
consumerVars == <<fraudVars, stockVars, statusUpdates, configured, sinkVars>>
invVars == <<req, is_cold, idx, validated_items, total_amount, env, calls,
             lookups, order_id, elapsed, charges, before, result>>

NoEnv == [pay |-> "none", store |-> "none", sns |-> "none", sqs |-> "none"]
NoRequest == [customer_id |-> NoCustomer, items |-> <<>>]
NoResult == [statusCode |-> 0]

\* the products table as the two seeding scripts fill it: tests/seed_data.py
\* writes the attribute 'stock', insert-data.py writes 'stock_quantity'
SeededProducts ==
    [p \in Catalog |->
        IF p = "p1" THEN [product_id |-> p, stock |-> INITIAL_STOCK]
        ELSE [product_id |-> p, stock_quantity |-> INITIAL_STOCK]]

\* inventory workers that run side by side, and a worker that has received
\* no message yet
Workers == {1, 2}
NoWorker == [status |-> "idle", items |-> <<>>, update |-> "ok", i |-> 1,
             ok |-> TRUE]

\* the consumers of events and change records before their first run
InitSinks ==
    /\ workers = [w \in Workers |-> NoWorker]
    /\ statusUpdates = {}
    /\ streamDelivered = 0
    /\ streamBatch = <<>>
    /\ streamEffects = <<>>
    /\ streamResult = NoResult
    /\ emailDelivered = 0
    /\ emailBatch = <<>>
    /\ emailLog = <<>>
    /\ emailResult = NoResult
    /\ analyticsDelivered = 0
    /\ analyticsBatch = <<>>
    /\ analyticsLog = <<>>
    /\ analyticsResult = NoResult

\* RISK_THRESHOLD is not set: os.environ.get falls back to '0.7'
DefaultConfiguration == [RISK_THRESHOLD |-> RISK_THRESHOLD]

\* the state after the modules are loaded, whatever the environment is
InitState ==
    /\ InitSinks
    /\ orders = {}
    /\ topic = <<>>
    /\ queue = <<>>
    /\ charges = <<>>
    /\ before = [orders |-> {}, topic |-> <<>>, queue |-> <<>>]
    /\ IS_COLD_START = TRUE
    /\ sinceInit = "lt5"
    /\ invocations = 0
    /\ pc = "idle"
    /\ req = NoRequest
    /\ is_cold = FALSE
    /\ idx = 1
    /\ validated_items = <<>>
    /\ total_amount = Dec(0)
    /\ env = NoEnv
    /\ calls = <<>>
    /\ lookups = <<>>
    /\ minted = {}
    /\ order_id = 0
    /\ elapsed = 0
    /\ result = NoResult
    /\ fraudDelivered = 0
    /\ fraudResult = NoResult
    /\ fraudBatch = <<>>
    /\ fraudBefore = {}
    /\ fraudUpdates = <<>>
    /\ products = SeededProducts
    /\ invDelivered = 0
    /\ invResult = NoResult
    /\ invBatch = <<>>
    /\ invBefore = SeededProducts

Init == InitState /\ configured = DefaultConfiguration


(***************************************************************************)
(* Helpers of the orders handler.                                          *)
(***************************************************************************)
\* float(Decimal) as json.dumps writes it: the shortest decimal that reads
\* back as the same double.  A double holds every decimal of at most 15
\* significant digits, so for the amounts of this model (cents below 2^31)
\* the number written is the decimal itself; the type changes to float.
DecimalToFloat(d) == Flt(d.v)

\* Decimal * int and Decimal + Decimal
DecMul(d, n) == Dec(d.v * n)
DecAdd(a, b) == Dec(a.v + b.v)

\* json.dumps with the default encoder raises TypeError on a Decimal
JsonSerializable(money) == money.t # "Decimal"
ItemsSerializable(items) ==
    \A i \in DOMAIN items : /\ JsonSerializable(items[i].price)
                            /\ JsonSerializable(items[i].subtotal)

\* uuid.uuid4(): an id that no item of the table and no earlier call has
Uuid4 ==
    LET used == minted \cup {o.order_id : o \in orders}
    IN  CHOOSE i \in OrderIds \ used : \A j \in OrderIds \ used : i <= j

\* orders_table.put_item(Item=order): replaces the item with the same key
PutItem(table, item) ==
    {o \in table : o.order_id # item.order_id} \cup {item}

Response(code, msg) == [statusCode |-> code, error |-> msg]


(***************************************************************************)
(* lambda_handler and create_order of src/src/orders/handler.py.           *)
(* Each action is one stretch of the handler up to and including one       *)
(* external call; the call's outcome is the action's input.                *)
(***************************************************************************)

\* time.time() - COLD_START_TIME reaches 5 seconds
Tick ==
    /\ pc = "idle"
    /\ sinceInit = "lt5"
    /\ sinceInit' = "ge5"
    /\ UNCHANGED <<storeVars, invVars, consumerVars, IS_COLD_START, invocations,
                   pc, minted>>

\* a check that looks at the item list only
InvalidRequestItemsOnly(r) == r.items = <<>>

\* "if not customer_id or not items" of create_order
InvalidRequest(r) == r.customer_id = NoCustomer \/ r.items = <<>>

\* lambda_handler up to the first catalog lookup: cold-start detection,
\* routing of POST /orders, parsing of the body, check of customer_id/items
Invoke(r) ==
    /\ pc = "idle"
    /\ invocations < MaxInvocations
    /\ invocations' = invocations + 1
    /\ is_cold' = (IS_COLD_START \/ sinceInit = "lt5")
    /\ IS_COLD_START' = IF is_cold' THEN FALSE ELSE IS_COLD_START
    /\ req' = r
    /\ idx' = 1
    /\ validated_items' = <<>>
    /\ total_amount' = Dec(0)
    /\ env' = NoEnv
    /\ calls' = <<>>
    /\ lookups' = <<>>
    /\ order_id' = 0
    /\ elapsed' = 0
    /\ charges' = <<>>
    /\ before' = [orders |-> orders, topic |-> topic, queue |-> queue]
    /\ IF InvalidRequest(r)
       THEN /\ result' = Response(400, "Missing customer_id or items")
            /\ pc' = "done"
       ELSE /\ result' = NoResult
            /\ pc' = "validate"
    /\ UNCHANGED <<storeVars, consumerVars, sinceInit, minted>>

\* a miss that does not return: the handler goes on to the payment
AfterMissGoesOn == "payment"

\* position of create_order after a lookup that finds no 'Item': it returns
AfterMiss == "done"

\* item['product_id'] and item['quantity'] do not raise KeyError
ItemWellFormed(item) == {"product_id", "quantity"} \subseteq DOMAIN item

\* one turn of the validation loop: products_table.get_item for items[idx]
ValidateItem ==
    /\ pc = "validate"
    /\ ItemWellFormed(req.items[idx])
    /\ LET item == req.items[idx]
           product_id == item.product_id
           quantity == item.quantity
       IN  /\ calls' = Append(calls, "get_item")
           /\ lookups' = Append(lookups, product_id)
           /\ IF product_id \notin Catalog
              THEN /\ result' = [statusCode |-> 404,
                                 error |-> "Product not found",
                                 product_id |-> product_id]
                   /\ pc' = AfterMiss
                   /\ UNCHANGED <<idx, validated_items, total_amount>>
              ELSE /\ validated_items' = Append(validated_items,
                          [product_id |-> product_id,
                           quantity |-> quantity,
                           price |-> Price[product_id],
                           subtotal |-> DecMul(Price[product_id], quantity)])
                   /\ total_amount' = DecAdd(total_amount,
                                             DecMul(Price[product_id], quantity))
                   /\ idx' = idx + 1
                   /\ pc' = IF idx = Len(req.items) THEN "payment" ELSE "validate"
                   /\ UNCHANGED result
    /\ UNCHANGED <<storeVars, consumerVars, IS_COLD_START, sinceInit, invocations,
                   req, is_cold, env, minted, order_id, elapsed, charges,
                   before>>

\* delay of the payment URL the handler picks: the slow one on a cold start,
\* otherwise the slow one when random.random() < 0.15 and a fast one if not
\* a choice of the payment URL that does not look at the cold start
PaymentDelaysWarm(cold) == {SLOW_DELAY_WARM} \cup FastDelays

\* delay of the payment URL create_order picks: /delay/3.5 on a cold start,
\* else /delay/6 or a delay between 0.8 and 1.5 seconds
PaymentDelays(cold) ==
    IF cold THEN {SLOW_DELAY_COLD} ELSE {SLOW_DELAY_WARM} \cup FastDelays

\* response of create_order for each way the payment call can end
PaymentResult(outcome) ==
    CASE outcome = "rejected" -> Response(502, "Payment gateway error")
      [] outcome = "timeout"  -> Response(504, "Payment gateway timeout")
      [] outcome = "error"    -> Response(502, "Payment processing failed")
      [] outcome = "badbody"  -> Response(502, "Payment processing failed")
      [] OTHER                -> NoResult

\* a timeout that is logged but does not return
PaymentNextIgnoresTimeout(outcome) ==
    IF outcome \in {"ok", "timeout"} THEN "persist" ELSE "done"

\* a status check that is missing: a non-200 answer is taken for a charge
PaymentNextIgnoresStatus(outcome) ==
    IF outcome \in {"ok", "rejected"} THEN "persist" ELSE "done"

\* a payment step whose failures are all swallowed
PaymentNextAlways(outcome) == "persist"

\* position of create_order after the payment call
PaymentNext(outcome) == IF outcome = "ok" THEN "persist" ELSE "done"

\* requests.post(payment_url, ..., timeout=10) and its handling:
\*   ok       status 200 with a JSON body
\*   rejected status other than 200
\*   timeout  requests.Timeout: no answer within PAYMENT_TIMEOUT
\*   error    any other exception of the call
\*   badbody  status 200 whose body payment_response.json() cannot parse
Payment(outcome, delay) ==
    /\ pc = "payment"
    /\ delay \in PaymentDelays(is_cold)
    /\ calls' = Append(calls, "payment")
    /\ env' = [env EXCEPT !.pay = outcome]
    /\ elapsed' = elapsed + (IF outcome = "timeout" THEN PAYMENT_TIMEOUT
                             ELSE delay)
    /\ charges' = IF outcome \in {"ok", "badbody"}
                  THEN Append(charges, [customer_id |-> req.customer_id,
                                        amount |-> DecimalToFloat(total_amount)])
                  ELSE charges
    /\ result' = PaymentResult(outcome)
    /\ pc' = PaymentNext(outcome)
    /\ UNCHANGED <<orders, topic, queue, consumerVars, IS_COLD_START,
                   sinceInit, invocations, req, is_cold, idx, validated_items,
                   total_amount, lookups, minted, order_id, before>>


\* the Order item create_order builds (step 3)
NewOrder(id, now) ==
    [order_id |-> id,
     customer_id |-> req.customer_id,
     timestamp |-> now,
     items |-> validated_items,
     total_amount |-> total_amount,
     status |-> "confirmed",
     payment_id |-> "unknown",
     created_at |-> now]

\* the Order-Created Event create_order publishes (step 4)
OrderCreated(id) ==
    [order_id |-> id,
     customer_id |-> req.customer_id,
     total_amount |-> DecimalToFloat(total_amount),
     event_type |-> "order_created"]

\* the Inventory-Adjustment Message create_order builds (step 5)
InventoryMessage(id) == [order_id |-> id, items |-> validated_items]

\* an exception handler that reports the order as created
ServerErrorAsCreated == [statusCode |-> 201]

\* lambda_handler's "except Exception"
ServerError == Response(500, "Internal server error")

\* step 3: uuid4, then orders_table.put_item(Item=order)
Persist(outcome) ==
    /\ pc = "persist"
    /\ LET id == Uuid4
       IN  /\ order_id' = id
           /\ minted' = minted \cup {id}
           /\ calls' = Append(calls, "put_item")
           /\ env' = [env EXCEPT !.store = outcome]
           /\ IF outcome = "ok"
              THEN /\ orders' = PutItem(orders, NewOrder(id, invocations))
                   /\ pc' = "publish"
                   /\ UNCHANGED result
              ELSE /\ result' = ServerError
                   /\ pc' = "done"
                   /\ UNCHANGED orders
    /\ UNCHANGED <<topic, queue, consumerVars, charges, IS_COLD_START, sinceInit,
                   invocations, req, is_cold, idx, validated_items,
                   total_amount, lookups, elapsed, before>>

\* a publish that is sent twice
PublishedTwice(t, event) == Append(Append(t, event), event)

\* the topic after a publish it accepted
Published(t, event) == Append(t, event)

\* step 4: sns.publish of the Order-Created Event
Publish(outcome) ==
    /\ pc = "publish"
    /\ calls' = Append(calls, "publish")
    /\ env' = [env EXCEPT !.sns = outcome]
    /\ IF outcome = "ok"
       THEN /\ topic' = Published(topic, OrderCreated(order_id))
            /\ pc' = "enqueue"
            /\ UNCHANGED result
       ELSE /\ result' = ServerError
            /\ pc' = "done"
            /\ UNCHANGED topic
    /\ UNCHANGED <<orders, queue, consumerVars, charges, IS_COLD_START, sinceInit,
                   invocations, req, is_cold, idx, validated_items,
                   total_amount, lookups, minted, order_id, elapsed, before>>

\* the 201 response of create_order
Created(id) ==
    [statusCode |-> 201,
     order_id |-> id,
     status |-> "confirmed",
     total_amount |-> DecimalToFloat(total_amount)]

\* step 5: json.dumps of the message with the default encoder, then
\* sqs.send_message; a TypeError of json.dumps reaches lambda_handler before
\* the queue is called
Enqueue(outcome) ==
    /\ pc = "enqueue"
    /\ pc' = "done"
    /\ IF ~ItemsSerializable(InventoryMessage(order_id).items)
       THEN /\ result' = ServerError
            /\ UNCHANGED <<queue, calls, env>>
       ELSE /\ calls' = Append(calls, "send_message")
            /\ env' = [env EXCEPT !.sqs = outcome]
            /\ IF outcome = "ok"
               THEN /\ queue' = Append(queue, InventoryMessage(order_id))
                    /\ result' = Created(order_id)
               ELSE /\ result' = ServerError
                    /\ UNCHANGED queue
    /\ UNCHANGED <<orders, topic, consumerVars, charges, IS_COLD_START, sinceInit,
                   invocations, req, is_cold, idx, validated_items,
                   total_amount, lookups, minted, order_id, elapsed, before>>

\* the response leaves the process; the next invocation starts from scratch
Return ==
    /\ pc = "done"
    /\ pc' = "idle"
    /\ req' = NoRequest
    /\ is_cold' = FALSE
    /\ idx' = 1
    /\ validated_items' = <<>>
    /\ total_amount' = Dec(0)
    /\ env' = NoEnv
    /\ calls' = <<>>
    /\ lookups' = <<>>
    /\ order_id' = 0
    /\ elapsed' = 0
    /\ charges' = <<>>
    /\ before' = [orders |-> {}, topic |-> <<>>, queue |-> <<>>]
    /\ result' = NoResult
    /\ UNCHANGED <<storeVars, consumerVars, IS_COLD_START, sinceInit, invocations,
                   minted>>

Next ==
    \/ Tick
    \/ \E r \in Requests : Invoke(r)
    \/ ValidateItem
    \/ \E o \in PayOutcomes, d \in {SLOW_DELAY_COLD, SLOW_DELAY_WARM} \cup FastDelays :
          Payment(o, d)
    \/ \E o \in CallOutcomes : Persist(o)
    \/ \E o \in CallOutcomes : Publish(o)
    \/ \E o \in CallOutcomes : Enqueue(o)
    \/ Return

Spec == Init /\ [][Next]_vars

(***************************************************************************)
(* The fraud consumer, src/src/fraud/handler.py.                           *)
(***************************************************************************)

Max(a, b) == IF a >= b THEN a ELSE b
Min(a, b) == IF a <= b THEN a ELSE b

\* a score that is not normalised to 0-1
analyze_fraud_risk_unclamped(customer_id, amount, payment_method, jitter) ==
    (IF amount > HIGH_AMOUNT THEN 30 ELSE IF amount > MID_AMOUNT THEN 20 ELSE 0)
    + (IF customer_id \in NewCustomers THEN 40 ELSE 0)
    + (IF payment_method = "crypto" THEN 20 ELSE 0)
    + jitter

\* amount steps that include their lower end
analyze_fraud_risk_inclusive(customer_id, amount, payment_method, jitter) ==
    Max(0, Min(100,
        (IF amount >= HIGH_AMOUNT THEN 30 ELSE IF amount >= MID_AMOUNT THEN 20 ELSE 0)
        + (IF customer_id \in NewCustomers THEN 40 ELSE 0)
        + (IF payment_method = "crypto" THEN 20 ELSE 0)
        + jitter))

\* analyze_fraud_risk, in hundredths; jitter is random.uniform(-0.1, 0.1)
analyze_fraud_risk(customer_id, amount, payment_method, jitter) ==
    LET byAmount == IF amount > HIGH_AMOUNT THEN 30
                    ELSE IF amount > MID_AMOUNT THEN 20 ELSE 0
        byCustomer == IF customer_id \in NewCustomers THEN 40 ELSE 0
        byMethod == IF payment_method = "crypto" THEN 20 ELSE 0
    IN  Max(0, Min(100, byAmount + byCustomer + byMethod + jitter))

\* UpdateExpression 'SET fraud_score = :score, fraud_status = :status'
\* a write that stores the item anew with the key and the two fraud attributes
SetFraudReplace(item, score, status) ==
    [order_id |-> item.order_id, fraud_score |-> score, fraud_status |-> status]

SetFraud(item, score, status) ==
    [a \in (DOMAIN item) \cup {"fraud_score", "fraud_status"} |->
        CASE a = "fraud_score"  -> score
          [] a = "fraud_status" -> status
          [] OTHER              -> item[a]]

\* a fraud write made with put_item: the stored item is replaced by one that
\* has the key and the two fraud attributes
UpdateFraudPut(table, id, score, status, outcome) ==
    IF outcome # "ok" THEN table
    ELSE {o \in table : o.order_id # id}
             \cup {[order_id |-> id, fraud_score |-> score,
                    fraud_status |-> status]}

\* orders_table.update_item(Key={'order_id': order_id}, ...) inside the
\* handler's try/except.  A call the table rejects or cannot serve raises and
\* the exception is caught and logged; otherwise update_item changes the item
\* with that key, and adds an item with that key if there is none.
UpdateFraud(table, id, score, status, outcome) ==
    IF outcome # "ok" THEN table
    ELSE IF \E o \in table : o.order_id = id
         THEN {IF o.order_id = id THEN SetFraud(o, score, status) ELSE o :
                  o \in table}
         ELSE table \cup {SetFraud([order_id |-> id], score, status)}

\* json.loads(record['body']) succeeds; a record it rejects is written with
\* the field body alone
Parses(rec) == "body" \notin DOMAIN rec
UnparseableRecord == [body |-> "unparseable"]

\* a classification that sends a score equal to the threshold to the low-risk
\* path
FraudRecordStrict(table, rec) ==
    LET risk_score == analyze_fraud_risk(rec.customer_id, rec.amount,
                                         rec.payment_method, rec.jitter)
    IN  IF risk_score > RISK_THRESHOLD
        THEN UpdateFraud(table, rec.order_id, risk_score,
                         "high_risk_pending_review", rec.update)
        ELSE UpdateFraud(table, rec.order_id, risk_score, "approved",
                         rec.update)

\* handle_high_risk_transaction / handle_low_risk_transaction for one record
FraudRecord(table, rec) ==
    IF ~Parses(rec) THEN table
    ELSE
    LET risk_score == analyze_fraud_risk(rec.customer_id, rec.amount,
                                         rec.payment_method, rec.jitter)
    IN  IF risk_score >= RISK_THRESHOLD
        THEN UpdateFraud(table, rec.order_id, risk_score,
                         "high_risk_pending_review", rec.update)
        ELSE UpdateFraud(table, rec.order_id, risk_score, "approved",
                         rec.update)

\* a loop that gives up the batch at the first update that fails
RECURSIVE FraudLoopStops(_, _)
FraudLoopStops(table, records) ==
    IF records = <<>> THEN table
    ELSE IF Head(records).update # "ok" THEN table
    ELSE FraudLoopStops(FraudRecord(table, Head(records)), Tail(records))

\* the loop of lambda_handler over event['Records']
RECURSIVE FraudLoop(_, _)
FraudLoop(table, records) ==
    IF records = <<>> THEN table
    ELSE FraudLoop(FraudRecord(table, Head(records)), Tail(records))

HighRisk(rec) ==
    /\ Parses(rec)
    /\ analyze_fraud_risk(rec.customer_id, rec.amount, rec.payment_method,
                          rec.jitter) >= RISK_THRESHOLD
LowRisk(rec) == Parses(rec) /\ ~HighRisk(rec)

\* lambda_handler of the fraud consumer on one batch
FraudHandler(batch) ==
    /\ fraudDelivered' = fraudDelivered + Len(batch)
    /\ fraudBatch' = batch
    /\ fraudBefore' = orders
    /\ fraudUpdates' = [i \in DOMAIN batch |->
                           IF Parses(batch[i])
                           THEN [order_id |-> batch[i].order_id,
                                 outcome |-> batch[i].update]
                           ELSE [order_id |-> 0, outcome |-> "none"]]
    /\ orders' = FraudLoop(orders, batch)
    /\ fraudResult' =
          [statusCode |-> 200,
           processed |-> Len(batch),
           high_risk |-> Cardinality({i \in DOMAIN batch : HighRisk(batch[i])}),
           low_risk |-> Cardinality({i \in DOMAIN batch : LowRisk(batch[i])})]
    /\ UNCHANGED <<topic, queue, IS_COLD_START, sinceInit,
                   invocations, pc, minted, invVars, stockVars,
                   statusUpdates, configured, sinkVars>>

\* the orchestrator together with the fraud consumer
NextSystem ==
    \/ Next
    \/ \E batch \in FraudBatches :
          /\ fraudDelivered + Len(batch) <= MaxFraudRecords
          /\ FraudHandler(batch)

SpecSystem == Init /\ [][NextSystem]_vars

(***************************************************************************)
(* The fraud consumer on its own, on an orders table that create_order has *)
(* filled: redelivered messages, batches of several records.               *)
(***************************************************************************)

\* the Order create_order writes for {customer_id: c1, items: [p1 x 2]} when
\* uuid4 returns id
SeedOrder(id) ==
    [order_id |-> id,
     customer_id |-> "c1",
     timestamp |-> id,
     items |-> <<[product_id |-> "p1", quantity |-> 2, price |-> Price["p1"],
                  subtotal |-> DecMul(Price["p1"], 2)]>>,
     total_amount |-> DecMul(Price["p1"], 2),
     status |-> "confirmed",
     payment_id |-> "unknown",
     created_at |-> id]

SeedTables == {{}, {SeedOrder(1)}, {SeedOrder(1), SeedOrder(2)}}

InitFraud ==
    /\ InitSinks
    /\ configured = DefaultConfiguration
    /\ orders \in SeedTables
    /\ minted = {o.order_id : o \in orders}
    /\ topic = <<>>
    /\ queue = <<>>
    /\ charges = <<>>
    /\ before = [orders |-> {}, topic |-> <<>>, queue |-> <<>>]
    /\ IS_COLD_START = TRUE
    /\ sinceInit = "lt5"
    /\ invocations = 0
    /\ pc = "idle"
    /\ req = NoRequest
    /\ is_cold = FALSE
    /\ idx = 1
    /\ validated_items = <<>>
    /\ total_amount = Dec(0)
    /\ env = NoEnv
    /\ calls = <<>>
    /\ lookups = <<>>
    /\ order_id = 0
    /\ elapsed = 0
    /\ result = NoResult
    /\ fraudDelivered = 0
    /\ fraudResult = NoResult
    /\ fraudBatch = <<>>
    /\ fraudBefore = {}
    /\ fraudUpdates = <<>>
    /\ products = SeededProducts
    /\ invDelivered = 0
    /\ invResult = NoResult
    /\ invBatch = <<>>
    /\ invBefore = SeededProducts

\* GET /orders served from a table that holds up to MaxListed orders, created
\* one after the other; every k-th order is another customer's
ListedOrder(i, k) ==
    [SeedOrder(i) EXCEPT
        !.customer_id = IF k # 0 /\ i % k = 0 THEN "new-c2" ELSE "c1"]
ListTables ==
    {{ListedOrder(i, k) : i \in 1 .. n} : n \in 0 .. MaxListed, k \in {0, 11}}

InitList ==
    /\ InitSinks
    /\ configured = DefaultConfiguration
    /\ orders \in ListTables
    /\ minted = {o.order_id : o \in orders}
    /\ topic = <<>>
    /\ queue = <<>>
    /\ charges = <<>>
    /\ before = [orders |-> {}, topic |-> <<>>, queue |-> <<>>]
    /\ IS_COLD_START = TRUE
    /\ sinceInit = "lt5"
    /\ invocations = 0
    /\ pc = "idle"
    /\ req = NoRequest
    /\ is_cold = FALSE
    /\ idx = 1
    /\ validated_items = <<>>
    /\ total_amount = Dec(0)
    /\ env = NoEnv
    /\ calls = <<>>
    /\ lookups = <<>>
    /\ order_id = 0
    /\ elapsed = 0
    /\ result = NoResult
    /\ fraudDelivered = 0
    /\ fraudResult = NoResult
    /\ fraudBatch = <<>>
    /\ fraudBefore = {}
    /\ fraudUpdates = <<>>
    /\ products = SeededProducts
    /\ invDelivered = 0
    /\ invResult = NoResult
    /\ invBatch = <<>>
    /\ invBefore = SeededProducts


\* records of a new customer; the jitter moves the score of the 1500 order
\* across the threshold
RedeliveryRecords == [order_id : {1, 2}, customer_id : NewCustomers,
                      amount : FraudAmounts, payment_method : {"card"},
                      jitter : {-10, 0}, update : CallOutcomes]

NextFraud ==
    \E n \in 1 .. (MaxRedeliveries - fraudDelivered) :
        \E batch \in [1 .. n -> RedeliveryRecords] : FraudHandler(batch)

SpecFraud == InitFraud /\ [][NextFraud]_vars

\* one record, over the inputs of analyze_fraud_risk: amounts at and next to
\* the steps of 500 and 1000
ScoreAmounts == {10000, 50000, 50001, 100000, 100001, 150000}
ScoreRecords == [order_id : {1}, customer_id : Customers,
                 amount : ScoreAmounts, payment_method : PaymentMethods,
                 jitter : Jitters, update : CallOutcomes]

NextScore ==
    \E rec \in ScoreRecords : fraudDelivered = 0 /\ FraudHandler(<<rec>>)

SpecScore == InitFraud /\ [][NextScore]_vars

\* ---------------------------------------------------------------------------
\* stream processor: DynamoDB Streams records of the orders table
\* ---------------------------------------------------------------------------

NoStatus == "absent"
NoScore == -1
StreamStatuses == {"confirmed", "shipped", "cancelled", NoStatus}
\* values of RISK_THRESHOLD a deployment sets
Configurations == [RISK_THRESHOLD : {50, RISK_THRESHOLD}]

\* an image of an item: the attributes it has, those given as absent left out
Present(fields, a) ==
    CASE a = "order_id"    -> TRUE
      [] a = "fraud_score" -> fields[a] # NoScore
      [] OTHER             -> fields[a] \notin {NoStatus, NoCustomer}
Image(fields) == [a \in {x \in DOMAIN fields : Present(fields, x)} |-> fields[a]]
OrderImage(status, fraud_score) ==
    Image([order_id |-> 1, customer_id |-> "c1", status |-> status,
           fraud_score |-> fraud_score])
Modify(old_status, new_status, old_score, new_score) ==
    [eventName |-> "MODIFY",
     dynamodb |-> [OldImage |-> OrderImage(old_status, old_score),
                   NewImage |-> OrderImage(new_status, new_score)]]
ScoreChanges == {<<NoScore, 65>>, <<NoScore, 70>>, <<70, 70>>, <<65, 70>>,
                 <<70, 65>>}
StreamRecords ==
    {Modify(o, n, NoScore, NoScore) : o, n \in StreamStatuses}
    \cup {Modify("confirmed", n, c[1], c[2]) :
             n \in {"confirmed", "shipped"}, c \in ScoreChanges}
    \cup {[eventName |-> "MODIFY",
           dynamodb |-> [NewImage |-> OrderImage("shipped", NoScore)]]}
    \cup {[eventName |-> "INSERT",
           dynamodb |-> [NewImage |-> OrderImage("confirmed", NoScore)]],
          [eventName |-> "INSERT",
           dynamodb |-> [NewImage |->
               Image([order_id |-> 1, customer_id |-> NoCustomer,
                      fraud_score |-> 70,
                      fraud_status |-> "high_risk_pending_review"])]],
          [eventName |-> "REMOVE",
           dynamodb |-> [OldImage |-> OrderImage("cancelled", NoScore)]]}

\* image.get(a, default)
Get(image, a, default) == IF a \in DOMAIN image THEN image[a] ELSE default

Call(name, id) == [call |-> name, order_id |-> id]
Raised == [call |-> "error", order_id |-> 0]

\* a diff that looks at the new status alone
StatusEffectsOnNew(old_status, new_status, id) ==
    IF new_status = "shipped" THEN <<Call("handle_order_shipped", id)>>
    ELSE IF new_status = "cancelled"
         THEN <<Call("handle_order_cancelled", id)>>
         ELSE <<>>

\* a diff that refuses a change of a terminal status
StatusEffectsEnforced(old_status, new_status, id) ==
    IF old_status # new_status /\ old_status \in {"shipped", "cancelled"}
    THEN <<Raised>>
    ELSE IF old_status # new_status /\ new_status = "shipped"
         THEN <<Call("handle_order_shipped", id)>>
         ELSE IF old_status # new_status /\ new_status = "cancelled"
              THEN <<Call("handle_order_cancelled", id)>>
              ELSE <<>>

\* handle_order_update, the status part
StatusEffects(old_status, new_status, id) ==
    IF old_status # new_status
    THEN IF new_status = "shipped"
         THEN <<Call("handle_order_shipped", id)>>
         ELSE IF new_status = "cancelled"
              THEN <<Call("handle_order_cancelled", id)>>
              ELSE <<>>
    ELSE <<>>

\* handle_order_update, the fraud score part: 'High risk order detected'
ScoreEffects(old_fraud_score, new_fraud_score, id) ==
    IF new_fraud_score # NoScore /\ old_fraud_score # new_fraud_score
    THEN IF new_fraud_score >= HIGH_RISK_SCORE
         THEN <<Call("review", id)>>
         ELSE <<>>
    ELSE <<>>

\* what the processor does for one record; a missing key raises and the
\* exception is caught in the loop
handle_new_order(record) ==
    IF \/ "NewImage" \notin DOMAIN record.dynamodb
       \/ "order_id" \notin DOMAIN record.dynamodb.NewImage
       \/ "customer_id" \notin DOMAIN record.dynamodb.NewImage
    THEN <<Raised>>
    ELSE <<Call("update_customer_cache", record.dynamodb.NewImage.order_id)>>

handle_order_update(record) ==
    IF \/ "OldImage" \notin DOMAIN record.dynamodb
       \/ "NewImage" \notin DOMAIN record.dynamodb
       \/ "order_id" \notin DOMAIN record.dynamodb.NewImage
    THEN <<Raised>>
    ELSE LET old_image == record.dynamodb.OldImage
             new_image == record.dynamodb.NewImage
             status == StatusEffects(Get(old_image, "status", "unknown"),
                                     Get(new_image, "status", "unknown"),
                                     new_image.order_id)
         IN  IF Raised \in {status[i] : i \in DOMAIN status} THEN status
             ELSE status \o ScoreEffects(Get(old_image, "fraud_score", NoScore),
                                         Get(new_image, "fraud_score", NoScore),
                                         new_image.order_id)

handle_order_deletion(record) ==
    IF \/ "OldImage" \notin DOMAIN record.dynamodb
       \/ "order_id" \notin DOMAIN record.dynamodb.OldImage
    THEN <<Raised>>
    ELSE <<>>

StreamRecord(record) ==
    CASE record.eventName = "INSERT" -> handle_new_order(record)
      [] record.eventName = "MODIFY" -> handle_order_update(record)
      [] record.eventName = "REMOVE" -> handle_order_deletion(record)
      [] OTHER -> <<>>

\* a loop that ends at the first record whose processing raises
RECURSIVE StreamLoopStops(_, _)
StreamLoopStops(records, i) ==
    IF i > Len(records) THEN <<>>
    ELSE LET effects == StreamRecord(records[i])
             tagged == [k \in DOMAIN effects |->
                           [record |-> i, call |-> effects[k].call,
                            order_id |-> effects[k].order_id]]
         IN  IF effects = <<Raised>> THEN tagged
             ELSE tagged \o StreamLoopStops(records, i + 1)

\* the loop of lambda_handler: the effects of each record, tagged with the
\* position of the record in the batch
RECURSIVE StreamLoop(_, _)
StreamLoop(records, i) ==
    IF i > Len(records) THEN <<>>
    ELSE LET effects == StreamRecord(records[i])
         IN  [k \in DOMAIN effects |->
                 [record |-> i, call |-> effects[k].call,
                  order_id |-> effects[k].order_id]]
             \o StreamLoop(records, i + 1)

StreamHandler(batch) ==
    /\ streamDelivered' = streamDelivered + Len(batch)
    /\ streamBatch' = batch
    /\ streamEffects' = StreamLoop(batch, 1)
    /\ streamResult' =
          [statusCode |-> 200,
           processed |-> Len(batch),
           inserts |-> Cardinality({i \in DOMAIN batch :
                                      batch[i].eventName = "INSERT"}),
           modifies |-> Cardinality({i \in DOMAIN batch :
                                       batch[i].eventName = "MODIFY"}),
           removes |-> Cardinality({i \in DOMAIN batch :
                                      batch[i].eventName = "REMOVE"})]
    /\ UNCHANGED <<storeVars, IS_COLD_START, sinceInit, invocations, pc,
                   minted, invVars, fraudVars, stockVars, statusUpdates,
                   configured, emailVars, analyticsVars>>

InitStream == InitState /\ configured \in Configurations

NextStream ==
    \E n \in 1 .. (MaxStreamRecords - streamDelivered) :
        \E batch \in [1 .. n -> StreamRecords] : StreamHandler(batch)

SpecStream == InitStream /\ [][NextStream]_vars

\* ---------------------------------------------------------------------------
\* consumers of the Order-Created Event: email and analytics
\* ---------------------------------------------------------------------------

\* payloads as create_order publishes them, and ones that also carry the
\* timestamp of the stored Order
EventTypes == {"order_created", "order_shipped"}
Payloads ==
    [order_id : {1}, customer_id : {"c1"}, total_amount : {Flt(1998)},
     event_type : EventTypes]
    \cup [order_id : {1}, customer_id : {"c1"}, total_amount : {Flt(1998)},
          event_type : EventTypes, timestamp : {1}]

\* the three shapes of a record: an SQS record whose body is the payload, an
\* SQS record whose body is the SNS envelope, and an SNS record
Raw(payload) == [body |-> payload]
Enveloped(payload) ==
    [body |-> [Type |-> "Notification", Message |-> payload]]
Notification(payload) == [Sns |-> [Message |-> payload]]

\* a record together with the outcome of the get_item made for it
WithLookup(record, outcome) ==
    [a \in (DOMAIN record) \cup {"lookup"} |->
        IF a = "lookup" THEN outcome ELSE record[a]]
EmailRecords ==
    {WithLookup(r, o) :
        r \in {Raw(p) : p \in Payloads} \cup {Enveloped(p) : p \in Payloads},
        o \in CallOutcomes}
AnalyticsRecords ==
    {Raw(p) : p \in Payloads} \cup {Notification(p) : p \in Payloads}

\* orders_table.get_item(Key={'order_id': ..., 'timestamp': ...})
GetItem(table, key) ==
    {o \in table : /\ o.order_id = key.order_id
                   /\ "timestamp" \in DOMAIN o
                   /\ o.timestamp = key.timestamp}

\* the template generate_email picks, and the attributes of the Order it reads
Template(event_type) ==
    IF event_type \in {"order_created", "order_confirmed", "order_shipped"}
    THEN event_type ELSE "order_update"
Reads(event_type) ==
    CASE event_type = "order_created" -> {"order_id", "total_amount", "status"}
      [] event_type = "order_confirmed" -> {"order_id", "total_amount"}
      [] OTHER -> {"order_id"}

Extracted(sns_message) ==
    [order_id |-> Get(sns_message, "order_id", 0),
     customer_id |-> Get(sns_message, "customer_id", NoCustomer),
     event_type |-> Get(sns_message, "event_type", "none")]
Entry(x, outcome) ==
    [order_id |-> x.order_id, customer_id |-> x.customer_id,
     event_type |-> x.event_type, outcome |-> outcome]
Failure == [outcome |-> "error"]

\* the body of the email loop for one record
EmailRecord(table, record) ==
    IF "body" \notin DOMAIN record THEN Failure
    ELSE LET message_body == record.body
             sns_message == IF "Message" \in DOMAIN message_body
                            THEN message_body.Message
                            ELSE message_body
             x == Extracted(sns_message)
             found == GetItem(table,
                              [order_id |-> x.order_id,
                               timestamp |-> Get(sns_message, "timestamp", 0)])
         IN  IF record.lookup # "ok" THEN Entry(x, "error")
             ELSE IF found = {} THEN Entry(x, "not_found")
             ELSE IF \E o \in found : ~(Reads(x.event_type) \subseteq DOMAIN o)
                  THEN Entry(x, "error")
                  ELSE [order_id |-> x.order_id, customer_id |-> x.customer_id,
                        event_type |-> x.event_type, outcome |-> "sent",
                        to |-> x.customer_id,
                        template |-> Template(x.event_type)]

\* a loop that ends at the first record whose Order is not found
RECURSIVE EmailLoopStops(_, _)
EmailLoopStops(table, records) ==
    IF records = <<>> THEN <<>>
    ELSE LET e == EmailRecord(table, Head(records))
         IN  IF e.outcome = "not_found" THEN <<e>>
             ELSE <<e>> \o EmailLoopStops(table, Tail(records))

\* the loop of lambda_handler over event['Records']
RECURSIVE EmailLoop(_, _)
EmailLoop(table, records) ==
    IF records = <<>> THEN <<>>
    ELSE <<EmailRecord(table, Head(records))>>
         \o EmailLoop(table, Tail(records))

EmailHandler(batch) ==
    /\ emailDelivered' = emailDelivered + Len(batch)
    /\ emailBatch' = batch
    /\ emailLog' = EmailLoop(orders, batch)
    /\ emailResult' = [statusCode |-> 200, processed |-> Len(batch)]
    /\ UNCHANGED <<storeVars, IS_COLD_START, sinceInit, invocations, pc,
                   minted, invVars, fraudVars, stockVars, statusUpdates,
                   configured, streamVars, analyticsVars>>

NextEmail ==
    \E n \in 1 .. (MaxEventRecords - emailDelivered) :
        \E batch \in [1 .. n -> EmailRecords] : EmailHandler(batch)

SpecEmail == InitFraud /\ [][NextEmail]_vars

\* the body of the analytics loop for one record
AnalyticsRecord(record) ==
    IF "Sns" \notin DOMAIN record THEN Failure
    ELSE LET sns_message == record.Sns.Message
             x == Extracted(sns_message)
         IN  IF x.event_type = "order_created"
             THEN [order_id |-> x.order_id, customer_id |-> x.customer_id,
                   event_type |-> x.event_type, outcome |-> "processed",
                   orders_count |-> 1,
                   revenue |-> Get(sns_message, "total_amount", Flt(0))]
             ELSE Entry(x, "skipped")

\* a loop that passes over a record whose order it has already seen in the
\* batch
AnalyticsLoopOnce(records) ==
    [i \in DOMAIN records |->
        IF \E j \in 1 .. (i - 1) : records[j] = records[i]
        THEN Failure
        ELSE AnalyticsRecord(records[i])]

\* the loop of lambda_handler over event['Records']
AnalyticsLoop(records) ==
    [i \in DOMAIN records |-> AnalyticsRecord(records[i])]

AnalyticsHandler(batch) ==
    /\ analyticsDelivered' = analyticsDelivered + Len(batch)
    /\ analyticsBatch' = batch
    /\ analyticsLog' = AnalyticsLoop(batch)
    /\ analyticsResult' = [statusCode |-> 200, processed |-> Len(batch)]
    /\ UNCHANGED <<storeVars, IS_COLD_START, sinceInit, invocations, pc,
                   minted, invVars, fraudVars, stockVars, statusUpdates,
                   configured, streamVars, emailVars>>

\* the analytics consumer on its own, with events of two customers and two
\* amounts
AnalyticsPayloads ==
    [order_id : {1, 2}, customer_id : Customers,
     total_amount : {Flt(1998), Flt(500)}, event_type : EventTypes]
AnalyticsEvents ==
    {Notification(p) : p \in AnalyticsPayloads}
    \cup {Raw(p) : p \in Payloads}

NextAnalytics ==
    \E n \in 1 .. (MaxEventRecords - analyticsDelivered) :
        \E batch \in [1 .. n -> AnalyticsEvents] : AnalyticsHandler(batch)

SpecAnalytics == Init /\ [][NextAnalytics]_vars

\* the three batch consumers, each on its own, with records that make them
\* raise
BatchFraudRecords ==
    [order_id : {1, 2}, customer_id : {"new-c2"}, amount : {150000},
     payment_method : {"card"}, jitter : {0}, update : CallOutcomes]
    \cup {UnparseableRecord}
BatchEmailRecords == EmailRecords \cup {[lookup |-> "ok"]}

NextBatch ==
    \/ /\ emailDelivered = 0 /\ streamDelivered = 0
       /\ \E n \in 1 .. (MaxRedeliveries - fraudDelivered) :
             \E batch \in [1 .. n -> BatchFraudRecords] : FraudHandler(batch)
    \/ /\ fraudDelivered = 0 /\ streamDelivered = 0
       /\ \E n \in 1 .. (MaxEventRecords - emailDelivered) :
             \E batch \in [1 .. n -> BatchEmailRecords] : EmailHandler(batch)
    \/ /\ fraudDelivered = 0 /\ emailDelivered = 0
       /\ NextStream

SpecBatch == InitFraud /\ [][NextBatch]_vars

\* both consumers of the event
NextEvents ==
    \/ \E n \in 1 .. (MaxEventRecords - emailDelivered) :
          \E batch \in [1 .. n -> EmailRecords] : EmailHandler(batch)
    \/ \E n \in 1 .. (MaxEventRecords - analyticsDelivered) :
          \E batch \in [1 .. n -> AnalyticsRecords] : AnalyticsHandler(batch)

SpecEvents == InitFraud /\ [][NextEvents]_vars

\* the statuses a downstream system moves an Order to
TransitionStatuses == {"shipped", "cancelled"}

\* a downstream system's update of one Order: a single-key update that sets
\* the attribute status and nothing else
StatusTransition(id, status) ==
    /\ \E o \in orders :
          o.order_id = id /\ "status" \in DOMAIN o /\ o.status # status
    /\ orders' = {IF o.order_id = id THEN [o EXCEPT !.status = status] ELSE o :
                     o \in orders}
    /\ statusUpdates' = {u \in statusUpdates : u.order_id # id}
                            \cup {[order_id |-> id, status |-> status]}
    /\ UNCHANGED <<topic, queue, IS_COLD_START, sinceInit, invocations, pc,
                   minted, invVars, fraudVars, stockVars, configured, sinkVars>>

\* fraud updates, one record at a time, interleaved with status transitions
NextLifecycle ==
    \/ \E rec \in RedeliveryRecords :
          /\ fraudDelivered < MaxRedeliveries
          /\ FraudHandler(<<rec>>)
    \/ \E id \in {1, 2}, status \in TransitionStatuses :
          StatusTransition(id, status)

SpecLifecycle == InitFraud /\ [][NextLifecycle]_vars

(***************************************************************************)
(* The inventory consumer, src/src/inventory/handler.py.                   *)
(***************************************************************************)

\* Inventory-Adjustment Messages: the items, and whether DynamoDB serves the
\* update_item calls made for the message ("fail": the first call raises)
InventoryItems == {[product_id |-> "p1", quantity |-> 2],
                   [product_id |-> "p2", quantity |-> 1]}
\* a message with an item that lacks 'quantity'
MalformedInventoryMessages ==
    {[order_id |-> 1, items |-> <<[product_id |-> "p1"]>>, update |-> "ok"]}
InventoryMessages ==
    [order_id : {1},
     items : UNION {[1 .. n -> InventoryItems] : n \in 1 .. MaxItems},
     update : CallOutcomes]
    \cup MalformedInventoryMessages

\* a decrement that stops at zero
DecrementFloored(item, quantity) ==
    [item EXCEPT !.stock = IF @ - quantity < 0 THEN 0 ELSE @ - quantity]

\* UpdateExpression 'SET stock = stock - :quantity' on an item
Decrement(item, quantity) == [item EXCEPT !.stock = @ - quantity]

\* the update expression can be evaluated: the item exists and has the
\* attribute 'stock' (DynamoDB rejects the update otherwise)
HasStock(table, product_id) ==
    product_id \in DOMAIN table /\ "stock" \in DOMAIN table[product_id]

\* a loop over the items that undoes the decrements of the message when one
\* of its items fails
RECURSIVE UpdateItemsRollback(_, _, _)
UpdateItemsRollback(table, items, outcome) ==
    IF items = <<>> THEN [table |-> table, ok |-> TRUE]
    ELSE LET product_id == Head(items).product_id
             quantity == Head(items).quantity
         IN  IF \/ ~ItemWellFormed(Head(items))
                \/ outcome # "ok"
                \/ ~HasStock(table, product_id)
             THEN [table |-> table, ok |-> FALSE]
             ELSE LET r == UpdateItemsRollback(
                               [table EXCEPT ![product_id] = Decrement(@, quantity)],
                               Tail(items), outcome)
                  IN  IF r.ok THEN r ELSE [table |-> table, ok |-> FALSE]

\* the loop over the items of one message; ok is FALSE when item['quantity']
\* or update_item raised, which ends the loop with the earlier decrements in
\* place
RECURSIVE UpdateItems(_, _, _)
UpdateItems(table, items, outcome) ==
    IF items = <<>> THEN [table |-> table, ok |-> TRUE]
    ELSE LET product_id == Head(items).product_id
             quantity == Head(items).quantity
         IN  IF \/ ~ItemWellFormed(Head(items))
                \/ outcome # "ok"
                \/ ~HasStock(table, product_id)
             THEN [table |-> table, ok |-> FALSE]
             ELSE UpdateItems(
                      [table EXCEPT ![product_id] = Decrement(@, quantity)],
                      Tail(items), outcome)

\* a loop that skips a record equal to the one before it
RECURSIVE InventoryLoopOnce(_, _)
InventoryLoopOnce(st, records) ==
    IF records = <<>> THEN st
    ELSE LET r == UpdateItems(st.table, Head(records).items, Head(records).update)
             rest == IF Len(records) >= 2 /\ records[2] = Head(records)
                     THEN Tail(Tail(records)) ELSE Tail(records)
         IN  InventoryLoopOnce(
                 [table |-> r.table,
                  successful |-> st.successful
                                 + (IF r.ok THEN Len(records) - Len(rest) ELSE 0),
                  failed |-> st.failed
                             + (IF r.ok THEN 0 ELSE Len(records) - Len(rest))],
                 rest)

\* a loop that gives up the batch at the first record that fails
RECURSIVE InventoryLoopStops(_, _)
InventoryLoopStops(st, records) ==
    IF records = <<>> THEN st
    ELSE LET r == UpdateItems(st.table, Head(records).items, Head(records).update)
         IN  IF ~r.ok
             THEN [table |-> r.table, successful |-> st.successful,
                   failed |-> st.failed + 1]
             ELSE InventoryLoopStops(
                      [table |-> r.table,
                       successful |-> st.successful + 1,
                       failed |-> st.failed],
                      Tail(records))

\* the loop of lambda_handler over event['Records'], with its two counters
RECURSIVE InventoryLoop(_, _)
InventoryLoop(st, records) ==
    IF records = <<>> THEN st
    ELSE LET r == UpdateItems(st.table, Head(records).items, Head(records).update)
         IN  InventoryLoop(
                 [table |-> r.table,
                  successful |-> st.successful + (IF r.ok THEN 1 ELSE 0),
                  failed |-> st.failed + (IF r.ok THEN 0 ELSE 1)],
                 Tail(records))

\* an inventory consumer that also writes the Orders of its records: it sets
\* their fraud attributes back to 'pending'
InventoryHandlerResets(batch) ==
    LET end == InventoryLoop([table |-> products, successful |-> 0, failed |-> 0],
                             batch)
        ids == {batch[i].order_id : i \in DOMAIN batch}
    IN  /\ invDelivered' = invDelivered + Len(batch)
        /\ invBatch' = batch
        /\ invBefore' = products
        /\ products' = end.table
        /\ invResult' = [statusCode |-> 200,
                         processed |-> Len(batch),
                         successful |-> end.successful,
                         failed |-> end.failed]
        /\ orders' = {IF o.order_id \in ids THEN SetFraud(o, 0, "pending") ELSE o :
                         o \in orders}
        /\ UNCHANGED <<topic, queue, fraudVars, IS_COLD_START, sinceInit,
                       invocations, pc, minted, invVars,
                       statusUpdates, configured, sinkVars, workers>>

\* lambda_handler of the inventory consumer on one batch
InventoryHandler(batch) ==
    LET end == InventoryLoop([table |-> products, successful |-> 0, failed |-> 0],
                             batch)
    IN  /\ invDelivered' = invDelivered + Len(batch)
        /\ invBatch' = batch
        /\ invBefore' = products
        /\ products' = end.table
        /\ invResult' = [statusCode |-> 200,
                         processed |-> Len(batch),
                         successful |-> end.successful,
                         failed |-> end.failed]
        /\ UNCHANGED <<storeVars, fraudVars, IS_COLD_START, sinceInit,
                       invocations, pc, minted, invVars,
                       statusUpdates, configured, sinkVars, workers>>

NextInventory ==
    \E n \in 1 .. (MaxInventoryRecords - invDelivered) :
        \E batch \in [1 .. n -> InventoryMessages] : InventoryHandler(batch)

SpecInventory == Init /\ [][NextInventory]_vars

\* Two workers of the inventory consumer side by side, each with one message.
\* A step is one call of update_item: DynamoDB evaluates the update expression
\* on the stored item and writes the result as one operation.
WorkerItems == InventoryItems \cup {[product_id |-> "p1", quantity |-> 1]}
WorkerMessages ==
    [order_id : {1},
     items : UNION {[1 .. n -> WorkerItems] : n \in 1 .. MaxItems},
     update : CallOutcomes]

\* a worker is invoked with a record
WorkerReceive(w, msg) ==
    /\ workers[w].status = "idle"
    /\ workers' = [workers EXCEPT ![w] =
                       [status |-> "running", items |-> msg.items,
                        update |-> msg.update, i |-> 1, ok |-> TRUE]]
    /\ invBefore' = products
    /\ UNCHANGED <<storeVars, fraudVars, IS_COLD_START, sinceInit,
                   invocations, pc, minted, invVars, statusUpdates,
                   configured, sinkVars, products, invDelivered, invResult,
                   invBatch>>

\* an update that writes back a stock computed from the table as it was when
\* the last worker started
WorkerUpdateStale(w) ==
    /\ workers[w].status = "running"
    /\ LET me == workers[w]
           item == me.items[me.i]
       IN  IF \/ ~ItemWellFormed(item)
              \/ me.update # "ok"
              \/ ~HasStock(products, item.product_id)
           THEN /\ workers' = [workers EXCEPT ![w].status = "done",
                                               ![w].ok = FALSE]
                /\ UNCHANGED products
           ELSE /\ products' = [products EXCEPT ![item.product_id] =
                                    Decrement(invBefore[item.product_id],
                                              item.quantity)]
                /\ workers' = [workers EXCEPT
                                  ![w].i = me.i + 1,
                                  ![w].status = IF me.i = Len(me.items)
                                                THEN "done" ELSE "running"]
    /\ UNCHANGED <<storeVars, fraudVars, IS_COLD_START, sinceInit,
                   invocations, pc, minted, invVars, statusUpdates,
                   configured, sinkVars, invDelivered, invResult, invBatch,
                   invBefore>>

\* the next turn of a worker's loop over the items: one update_item, or the
\* exception that ends the record
WorkerUpdate(w) ==
    /\ workers[w].status = "running"
    /\ LET me == workers[w]
           item == me.items[me.i]
       IN  IF \/ ~ItemWellFormed(item)
              \/ me.update # "ok"
              \/ ~HasStock(products, item.product_id)
           THEN /\ workers' = [workers EXCEPT ![w].status = "done",
                                               ![w].ok = FALSE]
                /\ UNCHANGED products
           ELSE /\ products' = [products EXCEPT ![item.product_id] =
                                    Decrement(@, item.quantity)]
                /\ workers' = [workers EXCEPT
                                  ![w].i = me.i + 1,
                                  ![w].status = IF me.i = Len(me.items)
                                                THEN "done" ELSE "running"]
    /\ UNCHANGED <<storeVars, fraudVars, IS_COLD_START, sinceInit,
                   invocations, pc, minted, invVars, statusUpdates,
                   configured, sinkVars, invDelivered, invResult, invBatch,
                   invBefore>>

NextWorkers ==
    \/ \E w \in Workers, msg \in WorkerMessages : WorkerReceive(w, msg)
    \/ \E w \in Workers : WorkerUpdate(w)

SpecWorkers == Init /\ [][NextWorkers]_vars

\* One Order and the four consumers of its messages, each run once, in any
\* order.
PipelineOrder == SeedOrder(1)
PipelineFraudRecords ==
    [order_id : {1}, customer_id : Customers, amount : FraudAmounts,
     payment_method : {"card"}, jitter : {-10, 0}, update : CallOutcomes]

InitPipeline == InitFraud /\ orders = {PipelineOrder}

NextPipeline ==
    \/ \E rec \in PipelineFraudRecords :
          fraudDelivered = 0 /\ FraudHandler(<<rec>>)
    \/ \E msg \in InventoryMessages :
          invDelivered = 0 /\ InventoryHandler(<<msg>>)
    \/ \E r \in EmailRecords :
          emailDelivered = 0 /\ EmailHandler(<<r>>)
    \/ \E r \in AnalyticsRecords :
          analyticsDelivered = 0 /\ AnalyticsHandler(<<r>>)

SpecPipeline == InitPipeline /\ [][NextPipeline]_vars

\* the three writers of the core side by side: the orchestrator with one
\* request of two items, the fraud consumer and the inventory consumer with one
\* record per run
CoreRequests ==
    {[customer_id |-> "c1",
      items |-> <<[product_id |-> "p1", quantity |-> 2],
                  [product_id |-> "p2", quantity |-> 1]>>]}
CorePayOutcomes == {"ok", "rejected"}
CoreFraudRecords ==
    [order_id : {1}, customer_id : {"new-c2"}, amount : FraudAmounts,
     payment_method : {"card"}, jitter : {0}, update : CallOutcomes]
CoreInventoryMessages ==
    [order_id : {1}, items : {<<[product_id |-> "p1", quantity |-> 2]>>},
     update : CallOutcomes]

NextCore ==
    \/ \E r \in CoreRequests : Invoke(r)
    \/ ValidateItem
    \/ \E o \in CorePayOutcomes : Payment(o, SLOW_DELAY_COLD)
    \/ \E o \in CallOutcomes : Persist(o)
    \/ \E o \in CallOutcomes : Publish(o)
    \/ \E o \in CallOutcomes : Enqueue(o)
    \/ Return
    \/ \E rec \in CoreFraudRecords :
          /\ fraudDelivered < MaxFraudRecords
          /\ FraudHandler(<<rec>>)
    \/ \E msg \in CoreInventoryMessages :
          /\ invDelivered < MaxInventoryRecords
          /\ InventoryHandler(<<msg>>)

SpecCore == Init /\ [][NextCore]_vars

(***************************************************************************)
(* The orders handler on the other inputs a client can send: a body that   *)
(* json.loads cannot read, items without product_id or quantity, and       *)
(* GET /orders.                                                            *)
(***************************************************************************)

\* event.get('body', '{}') for a body that is not a JSON object text:
\*   absent       the event has no 'body' key: the default '{}' is parsed
\*   null         the 'body' key holds None (a request sent without body)
\*   unparseable  the body is not JSON
BodyKinds == {"absent", "null", "unparseable"}

\* json.loads raises TypeError on None and JSONDecodeError on text that is
\* not JSON
JsonLoadsRaises(kind) == kind \in {"null", "unparseable"}

\* create_order on such a body: json.loads raises and lambda_handler's except
\* answers 500, or the default '{}' has no customer_id and the answer is 400
InvokeUnparsed(kind) ==
    /\ pc = "idle"
    /\ invocations < MaxInvocations
    /\ invocations' = invocations + 1
    /\ is_cold' = (IS_COLD_START \/ sinceInit = "lt5")
    /\ IS_COLD_START' = IF is_cold' THEN FALSE ELSE IS_COLD_START
    /\ req' = [customer_id |-> NoCustomer, items |-> <<>>, body |-> kind]
    /\ idx' = 1
    /\ validated_items' = <<>>
    /\ total_amount' = Dec(0)
    /\ env' = NoEnv
    /\ calls' = <<>>
    /\ lookups' = <<>>
    /\ order_id' = 0
    /\ elapsed' = 0
    /\ charges' = <<>>
    /\ before' = [orders |-> orders, topic |-> topic, queue |-> queue]
    /\ result' = IF JsonLoadsRaises(kind) THEN ServerError
                 ELSE Response(400, "Missing customer_id or items")
    /\ pc' = "done"
    /\ UNCHANGED <<storeVars, consumerVars, sinceInit, minted>>

\* items of a JSON body that lack a key
MalformedItems == {[product_id |-> "p1"], [quantity |-> 1]}
MalformedItemLists ==
    {l \in UNION {[1 .. n -> ItemInputs \cup MalformedItems] : n \in 1 .. MaxItems} :
        \E i \in DOMAIN l : ~ItemWellFormed(l[i])}
MalformedRequests == [customer_id : CustomerInputs, items : MalformedItemLists]

\* the turn of the validation loop on an item that lacks a key: KeyError
\* before the catalog is called, caught by lambda_handler's except
ValidateMalformedItem ==
    /\ pc = "validate"
    /\ ~ItemWellFormed(req.items[idx])
    /\ result' = ServerError
    /\ pc' = "done"
    /\ UNCHANGED <<storeVars, consumerVars, IS_COLD_START, sinceInit, invocations,
                   req, is_cold, idx, validated_items, total_amount, env, calls,
                   lookups, minted, order_id, elapsed, charges, before>>

\* customer_id of the query string of GET /orders
ListInputs == {"c1", NoCustomer}

\* orders_table.query on CustomerIndex: the items of the customer (an item
\* without customer_id is not in the index)
Query(table, customer_id) ==
    {o \in table : "customer_id" \in DOMAIN o /\ o.customer_id = customer_id}

\* CustomerIndex: the items of a customer in the order of their creation,
\* oldest first
RECURSIVE CustomerIndex(_, _)
CustomerIndex(table, customer_id) ==
    LET items == Query(table, customer_id)
    IN  IF items = {} THEN <<>>
        ELSE LET last == CHOOSE o \in items :
                             \A x \in items : x.created_at <= o.created_at
             IN  Append(CustomerIndex(table \ {last}, customer_id), last)

Reverse(seq) == [i \in 1 .. Len(seq) |-> seq[Len(seq) + 1 - i]]
Take(seq, n) == SubSeq(seq, 1, IF Len(seq) < n THEN Len(seq) ELSE n)

\* a page read from the front of the index
QueryOldest(index) == Take(index, QUERY_LIMIT)

\* query(..., ScanIndexForward=False, Limit=20): the page read from the end
\* of the index backwards
QueryNewest(index) == Take(Reverse(index), QUERY_LIMIT)

\* a list_orders that leaves a note of the query on the queue
ListOrdersNoted(customer_id, outcome) ==
    /\ pc = "idle"
    /\ invocations < MaxInvocations
    /\ invocations' = invocations + 1
    /\ is_cold' = (IS_COLD_START \/ sinceInit = "lt5")
    /\ IS_COLD_START' = IF is_cold' THEN FALSE ELSE IS_COLD_START
    /\ req' = [customer_id |-> customer_id, items |-> <<>>, route |-> "GET /orders"]
    /\ idx' = 1
    /\ validated_items' = <<>>
    /\ total_amount' = Dec(0)
    /\ order_id' = 0
    /\ elapsed' = 0
    /\ charges' = <<>>
    /\ lookups' = <<>>
    /\ before' = [orders |-> orders, topic |-> topic, queue |-> queue]
    /\ IF customer_id = NoCustomer
       THEN /\ result' = Response(400, "customer_id required")
            /\ calls' = <<>>
            /\ env' = NoEnv
       ELSE /\ calls' = <<"query">>
            /\ env' = [NoEnv EXCEPT !.store = outcome]
            /\ result' = IF outcome = "ok"
                         THEN [statusCode |-> 200,
                               orders |-> QueryNewest(
                                   CustomerIndex(orders, customer_id)),
                               count |-> Len(QueryNewest(
                                   CustomerIndex(orders, customer_id)))]
                         ELSE ServerError
    /\ pc' = "done"
    /\ queue' = Append(queue, [listed |-> customer_id])
    /\ UNCHANGED <<orders, topic, consumerVars, sinceInit, minted>>

\* lambda_handler on GET /orders: list_orders
ListOrders(customer_id, outcome) ==
    /\ pc = "idle"
    /\ invocations < MaxInvocations
    /\ invocations' = invocations + 1
    /\ is_cold' = (IS_COLD_START \/ sinceInit = "lt5")
    /\ IS_COLD_START' = IF is_cold' THEN FALSE ELSE IS_COLD_START
    /\ req' = [customer_id |-> customer_id, items |-> <<>>, route |-> "GET /orders"]
    /\ idx' = 1
    /\ validated_items' = <<>>
    /\ total_amount' = Dec(0)
    /\ order_id' = 0
    /\ elapsed' = 0
    /\ charges' = <<>>
    /\ lookups' = <<>>
    /\ before' = [orders |-> orders, topic |-> topic, queue |-> queue]
    /\ IF customer_id = NoCustomer
       THEN /\ result' = Response(400, "customer_id required")
            /\ calls' = <<>>
            /\ env' = NoEnv
       ELSE /\ calls' = <<"query">>
            /\ env' = [NoEnv EXCEPT !.store = outcome]
            /\ result' = IF outcome = "ok"
                         THEN [statusCode |-> 200,
                               orders |-> QueryNewest(
                                   CustomerIndex(orders, customer_id)),
                               count |-> Len(QueryNewest(
                                   CustomerIndex(orders, customer_id)))]
                         ELSE ServerError
    /\ pc' = "done"
    /\ UNCHANGED <<storeVars, consumerVars, sinceInit, minted>>

NextClient ==
    \/ Next
    \/ \E kind \in BodyKinds : InvokeUnparsed(kind)
    \/ \E r \in MalformedRequests : Invoke(r)
    \/ ValidateMalformedItem
    \/ \E c \in ListInputs, o \in CallOutcomes : ListOrders(c, o)

SpecClient == Init /\ [][NextClient]_vars

\* GET /orders alone, from the seeded tables
ListCustomers == {"c1", "new-c2", NoCustomer}
NextList ==
    \/ \E c \in ListCustomers, o \in CallOutcomes : ListOrders(c, o)
    \/ Return

SpecList == InitList /\ [][NextList]_vars

\* GET /orders between POST /orders invocations and runs of the inventory
\* consumer
NextRead ==
    \/ \E r \in CoreRequests : Invoke(r)
    \/ ValidateItem
    \/ \E o \in CorePayOutcomes : Payment(o, SLOW_DELAY_COLD)
    \/ \E o \in CallOutcomes : Persist(o)
    \/ \E o \in CallOutcomes : Publish(o)
    \/ \E o \in CallOutcomes : Enqueue(o)
    \/ Return
    \/ \E msg \in CoreInventoryMessages :
          /\ invDelivered < MaxInventoryRecords
          /\ InventoryHandler(<<msg>>)
    \/ \E c \in ListInputs, o \in CallOutcomes : ListOrders(c, o)

SpecRead == Init /\ [][NextRead]_vars

\* the orchestrator and the email consumer, which receives the events of the
\* topic in the notification envelope
NextNotify ==
    \/ \E r \in CoreRequests : Invoke(r)
    \/ ValidateItem
    \/ \E o \in CorePayOutcomes : Payment(o, SLOW_DELAY_COLD)
    \/ \E o \in CallOutcomes : Persist(o)
    \/ \E o \in CallOutcomes : Publish(o)
    \/ \E o \in CallOutcomes : Enqueue(o)
    \/ Return
    \/ \E i \in DOMAIN topic, o \in CallOutcomes :
          /\ emailDelivered < MaxEventRecords
          /\ EmailHandler(<<WithLookup(Enveloped(topic[i]), o)>>)

SpecNotify == Init /\ [][NextNotify]_vars


(***************************************************************************)
(* Properties of the order saga.                                           *)
(***************************************************************************)

\* the request passed create_order's check of customer_id and items
Accepted == req.customer_id # NoCustomer /\ req.items # <<>>

HasMissing(items) == \E i \in DOMAIN items : items[i].product_id \notin Catalog
FirstMissing(items) ==
    CHOOSE i \in DOMAIN items :
        /\ items[i].product_id \notin Catalog
        /\ \A j \in 1 .. (i - 1) : items[j].product_id \in Catalog

Count(seq, x) == Cardinality({i \in DOMAIN seq : seq[i] = x})
Made(op) == Count(calls, op) > 0

\* the invocation has changed neither the orders table, nor the topic, nor
\* the queue
NothingWritten ==
    /\ orders = before.orders
    /\ topic = before.topic
    /\ queue = before.queue
    /\ ~Made("put_item") /\ ~Made("publish") /\ ~Made("send_message")

\* C1: when the payment call exceeds its deadline (requests.Timeout),
\* create_order returns 504 "Payment gateway timeout"; the invocation has
\* written no Order, published no event, enqueued no message, and the payment
\* call is the last external call it makes (no compensation follows).
C1_TimeoutReturns504 ==
    env.pay = "timeout" =>
        /\ pc = "done"
        /\ result = Response(504, "Payment gateway timeout")
        /\ NothingWritten
        /\ calls[Len(calls)] = "payment"
        /\ Count(calls, "payment") = 1
        /\ order_id = 0

C1_Witness ==
    /\ pc = "done"
    /\ env.pay = "timeout"
    /\ result.statusCode = 504
    /\ Len(req.items) = 2

\* C2: for an accepted request with an item whose product is not in the
\* catalog, create_order looks up the items in order up to the first missing
\* one and no further, makes no other external call, writes nothing, and
\* returns 404 naming that product.
C2_UnknownProduct404 ==
    (Accepted /\ HasMissing(req.items)) =>
        LET k == FirstMissing(req.items) IN
        /\ Len(lookups) <= k
        /\ \A i \in DOMAIN lookups : lookups[i] = req.items[i].product_id
        /\ calls = [i \in DOMAIN lookups |-> "get_item"]
        /\ NothingWritten
        /\ charges = <<>>
        /\ pc \in {"validate", "done"}
        /\ pc = "done" =>
              /\ Len(lookups) = k
              /\ result = [statusCode |-> 404,
                           error |-> "Product not found",
                           product_id |-> req.items[k].product_id]

\* a miss on the first of two items: the second is never looked up
C2_Witness ==
    /\ pc = "done"
    /\ Accepted
    /\ Len(req.items) = 2
    /\ req.items[1].product_id \notin Catalog
    /\ req.items[2].product_id \in Catalog
    /\ result.statusCode = 404
    /\ lookups = <<req.items[1].product_id>>


EventsFor(id) == Count([i \in DOMAIN topic |-> topic[i].order_id], id)
TheCharge == [customer_id |-> req.customer_id,
              amount |-> DecimalToFloat(total_amount)]

\* C3: once the Order is written, a failure of the publish or of the queue
\* send (step 5) leaves the Order as written, leaves the charge in place, is
\* followed by no further call (no retry, no undo) and is answered with 500.
C3_FanOutFailureKeepsOrder ==
    (pc = "done" /\ env.store = "ok" /\ env.sqs # "ok") =>
        /\ result = Response(500, "Internal server error")
        /\ orders = before.orders \cup {NewOrder(order_id, invocations)}
        /\ order_id \notin {o.order_id : o \in before.orders}
        /\ charges = <<TheCharge>>
        /\ Count(calls, "put_item") = 1
        /\ Count(calls, "publish") = 1
        /\ Count(calls, "send_message") <= 1
        /\ env.sns = "fail" => (calls[Len(calls)] = "publish" /\ topic = before.topic)
        /\ queue = before.queue

C3_Witness ==
    /\ pc = "done"
    /\ env.store = "ok"
    /\ env.sns = "fail"
    /\ result.statusCode = 500
    /\ \E o \in orders : o.order_id = order_id /\ o.status = "confirmed"
    /\ before.orders # {}

\* C4: an accepted request whose products all exist, with a payment that
\* succeeds and no failure of the table, the topic or the queue, is answered
\* with 201 {order_id, status = confirmed, total_amount}.
C4_SuccessReturns201 ==
    ( /\ pc = "done"
      /\ Accepted
      /\ ~HasMissing(req.items)
      /\ env.pay = "ok"
      /\ env.store = "ok"
      /\ env.sns = "ok"
      /\ env.sqs # "fail" ) =>
        /\ result = Created(order_id)
        /\ Made("send_message")

\* C5 as claimed: once an invocation is over, every Order in the table has
\* exactly one Order-Created Event in the topic.
C5_ExactlyOneEvent ==
    pc \in {"idle", "done"} => \A o \in orders : EventsFor(o.order_id) = 1

\* C5 as amended: every Order has at most one event and every event belongs
\* to an Order of the table; the Order of an invocation has exactly one from
\* the moment its publish succeeded, and none when its publish failed.
C5_AtMostOneEvent ==
    /\ \A o \in orders : EventsFor(o.order_id) <= 1
    /\ \A i \in DOMAIN topic : \E o \in orders : o.order_id = topic[i].order_id
    /\ (pc \in {"enqueue", "done"} /\ env.sns = "ok") =>
          /\ EventsFor(order_id) = 1
          /\ topic = Append(before.topic, OrderCreated(order_id))
    /\ (pc = "done" /\ env.store = "ok" /\ env.sns = "fail") =>
          EventsFor(order_id) = 0

C5_Witness ==
    /\ pc = "done"
    /\ env.sns = "ok"
    /\ Cardinality(orders) = 2
    /\ Len(topic) = 1
    /\ EventsFor(order_id) = 1

\* C6: every item of the orders table was written by create_order (its id
\* came from uuid4 after the payment succeeded) with status confirmed, and an
\* invocation writes at most one.
C6_OrdersOnlyFromCreateOrder ==
    /\ \A o \in orders :
          /\ o.order_id \in minted
          /\ "status" \in DOMAIN o
          /\ "total_amount" \in DOMAIN o
    /\ Count(calls, "put_item") <= 1
    /\ Made("put_item") => env.pay = "ok"

Phases == <<"payment", "put_item", "publish", "send_message">>

\* C7: the external calls of an invocation are the catalog lookups, then the
\* payment, then the Order write, then the publish, then the queue send: the
\* payment follows the validation of every item, the write follows a
\* successful payment, the publish follows a successful write, and step 5 is
\* entered only after a successful publish.
C7_PhaseOrder ==
    LET n == Count(calls, "get_item") IN
    /\ \A i \in 1 .. n : calls[i] = "get_item"
    /\ Len(calls) - n <= Len(Phases)
    /\ \A i \in 1 .. (Len(calls) - n) : calls[n + i] = Phases[i]
    /\ Made("payment") => (n = Len(req.items) /\ ~HasMissing(req.items))
    /\ Made("put_item") => env.pay = "ok"
    /\ Made("publish") =>
          (env.store = "ok" /\ \E o \in orders : o.order_id = order_id)
    /\ pc = "enqueue" => (env.sns = "ok" /\ EventsFor(order_id) = 1)
    /\ Made("send_message") => env.sns = "ok"

C7_Witness ==
    /\ pc = "enqueue"
    /\ calls = <<"get_item", "get_item", "payment", "put_item", "publish">>

\* C9: when the gateway answers with a status other than 200, create_order
\* returns 502 "Payment gateway error" and the invocation has written no
\* Order, published no event and enqueued no message.
C9_RejectedReturns502 ==
    env.pay = "rejected" =>
        /\ pc = "done"
        /\ result = Response(502, "Payment gateway error")
        /\ NothingWritten
        /\ order_id = 0
        /\ calls[Len(calls)] = "payment"

C9_Witness ==
    /\ pc = "done"
    /\ env.pay = "rejected"
    /\ result.statusCode = 502
    /\ ~is_cold

\* C10: the deadline of the payment call is shorter than the deadline of the
\* invocation, so an invocation whose payment call ran to its deadline is
\* still within its own deadline when it returns the timeout result.
C10_PaymentDeadlineWithinInvocation ==
    (pc = "done" /\ env.pay = "timeout") => elapsed < LAMBDA_TIMEOUT

(***************************************************************************)
(* Totals, request validation and error classes.                           *)
(***************************************************************************)

\* sum over the items of catalog price times quantity, in cents
RECURSIVE ExactSum(_)
ExactSum(items) ==
    IF items = <<>> THEN 0
    ELSE Price[Head(items).product_id].v * Head(items).quantity
         + ExactSum(Tail(items))

TheOrder == CHOOSE o \in orders : o.order_id = order_id
TheEvent == topic[Len(topic)]

\* C11: for an accepted item list whose saga went through (payment, write
\* and publish succeeded, the queue did not fail), the total stored in the
\* Order, the total carried by the Order-Created Event and the total returned
\* to the caller all equal the exact sum of price times quantity.
C11_TotalExact ==
    (pc = "done" /\ env.sns = "ok" /\ env.sqs # "fail") =>
        /\ TheOrder.total_amount = Dec(ExactSum(req.items))
        /\ TheEvent.order_id = order_id
        /\ TheEvent.total_amount.v = ExactSum(req.items)
        /\ "total_amount" \in DOMAIN result
        /\ result.total_amount.v = ExactSum(req.items)

\* C12: a request without customer_id or with an empty item list is answered
\* with 400 "Missing customer_id or items" before any catalog lookup, payment
\* call, table write, publish or queue send.
C12_InvalidRequest400 ==
    (pc # "idle" /\ ~Accepted) =>
        /\ pc = "done"
        /\ result = Response(400, "Missing customer_id or items")
        /\ calls = <<>>
        /\ lookups = <<>>
        /\ charges = <<>>
        /\ order_id = 0
        /\ NothingWritten

\* a request with two items and no customer_id
C12_Witness ==
    /\ pc = "done"
    /\ req.customer_id = NoCustomer
    /\ Len(req.items) = 2
    /\ result.statusCode = 400
    /\ calls = <<>>

\* the request is POST /orders with a body that is absent or not JSON, or with
\* an item that lacks product_id or quantity
MalformedInput ==
    \/ "body" \in DOMAIN req
    \/ /\ "route" \notin DOMAIN req
       /\ \E i \in DOMAIN req.items : ~ItemWellFormed(req.items[i])

\* C13: a POST /orders whose body is missing or unparseable, or one of whose
\* items lacks product_id or quantity, is answered with a 4xx status and
\* never with a 5xx status.
C13_MalformedIs4xx ==
    (pc = "done" /\ MalformedInput) => result.statusCode \in 400 .. 499

\* what made the invocation fail, read from its inputs and call outcomes
ClientError ==
    \/ MalformedInput
    \/ req.customer_id = NoCustomer
    \/ "route" \notin DOMAIN req /\ req.items = <<>>
    \/ Made("get_item") /\ lookups[Len(lookups)] \notin Catalog
DeadlineExceeded == env.pay = "timeout"
PaymentDeclined == env.pay = "rejected"
ServerFault == env.store = "fail" \/ env.sns = "fail" \/ env.sqs = "fail"

\* C14: every failing createOrder or listOrders call returns an error message
\* and a status of its failure class: 4xx only for client errors, 504 only
\* for an exceeded payment deadline, 502 only for a payment decline, 500 only
\* for server faults.
C14_StatusIdentifiesClass ==
    (pc = "done" /\ result.statusCode \notin {200, 201}) =>
        /\ "error" \in DOMAIN result
        /\ result.statusCode \in {400, 404, 502, 504, 500}
        /\ result.statusCode \in {400, 404} => ClientError
        /\ result.statusCode = 504 => DeadlineExceeded
        /\ result.statusCode = 502 => PaymentDeclined
        /\ result.statusCode = 500 => (ServerFault /\ ~ClientError)

(***************************************************************************)
(* Properties of the fraud consumer.                                       *)
(***************************************************************************)

Score(rec) == analyze_fraud_risk(rec.customer_id, rec.amount,
                                 rec.payment_method, rec.jitter)
Verdict(rec) ==
    IF Score(rec) >= RISK_THRESHOLD THEN "high_risk_pending_review"
    ELSE "approved"
SameMessage(a, b) ==
    /\ a.order_id = b.order_id
    /\ a.customer_id = b.customer_id
    /\ a.amount = b.amount
    /\ a.payment_method = b.payment_method
UpdateOk(rec) == rec.update = "ok"
\* the run found an Order with the id of this record in the table
OrderExisted(rec) == \E b \in fraudBefore : b.order_id = rec.order_id

\* fraud score and fraud status of the item with this id (empty if it has none)
FraudFields(table, id) ==
    {[score |-> o.fraud_score, status |-> o.fraud_status] :
        o \in {x \in table : x.order_id = id /\ "fraud_score" \in DOMAIN x}}

\* the record whose update is the last one of the run that reached its order
LastWrite(i) ==
    /\ UpdateOk(fraudBatch[i])
    /\ \A j \in DOMAIN fraudBatch :
          (j > i /\ fraudBatch[j].order_id = fraudBatch[i].order_id)
              => ~UpdateOk(fraudBatch[j])

\* C15: when a run processes the same Fraud-Check message of an Order of the
\* table twice (both updates reaching the table), the Order ends with the fraud score and fraud status
\* it has after the first processing alone.
C15_FraudIdempotent ==
    ( /\ Len(fraudBatch) = 2
      /\ SameMessage(fraudBatch[1], fraudBatch[2])
      /\ OrderExisted(fraudBatch[1])
      /\ UpdateOk(fraudBatch[1])
      /\ UpdateOk(fraudBatch[2]) ) =>
        FraudFields(orders, fraudBatch[1].order_id)
            = FraudFields(FraudLoop(fraudBefore, <<fraudBatch[1]>>),
                          fraudBatch[1].order_id)

C17_ScoreInRange ==
    /\ \A i \in DOMAIN fraudBatch : Score(fraudBatch[i]) \in 0 .. 100
    /\ \A o \in orders : "fraud_score" \in DOMAIN o => o.fraud_score \in 0 .. 100

\* the rules add up to less than zero and 0.0 is written
C17_Witness ==
    /\ Len(fraudBatch) = 1
    /\ fraudBatch[1].customer_id \notin NewCustomers
    /\ fraudBatch[1].amount <= MID_AMOUNT
    /\ fraudBatch[1].payment_method = "card"
    /\ fraudBatch[1].jitter < 0
    /\ UpdateOk(fraudBatch[1])
    /\ FraudFields(orders, fraudBatch[1].order_id) = {[score |-> 0, status |-> "approved"]}

\* the sum of the rules as the contract words them, in hundredths
RuleSum(rec) ==
    (IF rec.amount > 100000 THEN 30 ELSE IF rec.amount > 50000 THEN 20 ELSE 0)
    + (IF rec.customer_id \in NewCustomers THEN 40 ELSE 0)
    + (IF rec.payment_method = "crypto" THEN 20 ELSE 0)
    + rec.jitter

\* amount 1500, new customer, card, zero jitter
IsExample(rec) ==
    /\ rec.amount = 150000
    /\ rec.customer_id \in NewCustomers
    /\ rec.payment_method = "card"
    /\ rec.jitter = 0

\* C18: the score is the sum of 0.3 for an amount above 1000, else 0.2 for an
\* amount above 500 (1000 gives 0.2, 500 gives 0), 0.4 for a new customer,
\* 0.2 for crypto, and the jitter, brought into 0.0 .. 1.0; amount 1500, new
\* customer, card, zero jitter scores 0.7 and takes the high-risk path.
C18_ScoreRule ==
    \A i \in DOMAIN fraudBatch :
        LET rec == fraudBatch[i] IN
        /\ Score(rec) = Max(0, Min(100, RuleSum(rec)))
        /\ RuleSum(rec) \in 0 .. 100 => Score(rec) = RuleSum(rec)
        /\ (rec.amount = 100000 /\ rec.customer_id \notin NewCustomers
              /\ rec.payment_method = "card" /\ rec.jitter = 0) => Score(rec) = 20
        /\ (rec.amount = 50000 /\ rec.customer_id \notin NewCustomers
              /\ rec.payment_method = "card" /\ rec.jitter = 0) => Score(rec) = 0
        /\ UpdateOk(rec) =>
              \E f \in FraudFields(orders, rec.order_id) :
                  f.score = Max(0, Min(100, RuleSum(rec)))
        /\ IsExample(rec) =>
              /\ Score(rec) = 70
              /\ fraudResult.high_risk = 1
              /\ UpdateOk(rec) =>
                    FraudFields(orders, rec.order_id)
                        = {[score |-> 70, status |-> "high_risk_pending_review"]}

C18_Witness ==
    /\ Len(fraudBatch) = 1
    /\ IsExample(fraudBatch[1])
    /\ UpdateOk(fraudBatch[1])
    /\ fraudResult.high_risk = 1
    /\ SeedOrder(fraudBatch[1].order_id) \in fraudBefore
    /\ FraudFields(orders, fraudBatch[1].order_id)
          = {[score |-> 70, status |-> "high_risk_pending_review"]}

\* C19: an update of the Order that fails is swallowed: the run still answers
\* 200 and reports no failed message, every message of the batch gets one
\* update call and no second one, the failed update leaves the Order as it
\* was, and the other messages of the batch take effect.
C19_UpdateFailureSwallowed ==
    fraudBatch # <<>> =>
        /\ DOMAIN fraudResult = {"statusCode", "processed", "high_risk", "low_risk"}
        /\ fraudResult.statusCode = 200
        /\ fraudResult.processed = Len(fraudBatch)
        /\ Len(fraudUpdates) = Len(fraudBatch)
        /\ \A i \in DOMAIN fraudBatch :
              fraudUpdates[i].order_id = fraudBatch[i].order_id
        /\ orders = FraudLoop(fraudBefore, SelectSeq(fraudBatch, UpdateOk))
        /\ (\A i \in DOMAIN fraudBatch : ~UpdateOk(fraudBatch[i])) =>
              orders = fraudBefore

\* the first update of a batch of two fails, the second takes effect
C19_Witness ==
    /\ Len(fraudBatch) = 2
    /\ ~UpdateOk(fraudBatch[1])
    /\ UpdateOk(fraudBatch[2])
    /\ fraudBatch[1].order_id # fraudBatch[2].order_id
    /\ \A i \in 1 .. 2 : OrderExisted(fraudBatch[i])
    /\ FraudFields(orders, fraudBatch[1].order_id) = {}
    /\ FraudFields(orders, fraudBatch[2].order_id) # {}
    /\ fraudResult.processed = 2

(***************************************************************************)
(* Properties of the inventory consumer.                                   *)
(***************************************************************************)

\* quantity of a product over the items of a message
RECURSIVE Quantity(_, _)
Quantity(items, p) ==
    IF items = <<>> THEN 0
    ELSE (IF Head(items).product_id = p THEN Head(items).quantity ELSE 0)
         + Quantity(Tail(items), p)

\* every update of the message can be made and is served
Applies(msg) ==
    /\ msg.update = "ok"
    /\ \A i \in DOMAIN msg.items :
          /\ ItemWellFormed(msg.items[i])
          /\ HasStock(invBefore, msg.items[i].product_id)

\* C20: when the same Inventory-Adjustment Message is delivered twice (and
\* its updates go through), the stock of every product it names ends at the
\* initial stock minus twice the quantity of the message, not minus once.
C20_DuplicateDecrementsTwice ==
    ( /\ Len(invBatch) = 2
      /\ invBatch[1] = invBatch[2]
      /\ Applies(invBatch[1]) ) =>
        /\ invResult.successful = 2
        /\ \A i \in DOMAIN invBatch[1].items :
              LET p == invBatch[1].items[i].product_id IN
              /\ products[p].stock
                    = invBefore[p].stock - 2 * Quantity(invBatch[1].items, p)
              /\ products[p].stock
                    # invBefore[p].stock - Quantity(invBatch[1].items, p)

C20_Witness ==
    /\ Len(invBatch) = 2
    /\ invBatch[1] = invBatch[2]
    /\ invBatch[1].items = <<[product_id |-> "p1", quantity |-> 2]>>
    /\ invBatch[1].update = "ok"
    /\ invBefore["p1"].stock = INITIAL_STOCK
    /\ products["p1"].stock = INITIAL_STOCK - 4
    /\ invResult.successful = 2

\* the items of a message that are applied: all of them, or those before the
\* first one whose update cannot be made
RECURSIVE AppliedItems(_)
AppliedItems(msg) ==
    IF msg.items = <<>> \/ msg.update # "ok" THEN <<>>
    ELSE IF \/ ~ItemWellFormed(Head(msg.items))
            \/ ~HasStock(invBefore, Head(msg.items).product_id)
         THEN <<>>
         ELSE <<Head(msg.items)>>
              \o AppliedItems([msg EXCEPT !.items = Tail(msg.items)])

\* quantity of a product over the applied items of the records of a batch
RECURSIVE BatchQuantity(_, _)
BatchQuantity(batch, p) ==
    IF batch = <<>> THEN 0
    ELSE Quantity(AppliedItems(Head(batch)), p) + BatchQuantity(Tail(batch), p)

StockOf(table, p) == IF HasStock(table, p) THEN {table[p].stock} ELSE {}

\* C21: after the consumer processes messages whose updates all go through,
\* the stock of every product is its stock before the run minus the sum of
\* the quantities of that product in the messages, whatever the stock was:
\* there is no floor.
C21_RelativeDecrement ==
    (\A i \in DOMAIN invBatch : Applies(invBatch[i])) =>
        \A p \in Catalog :
            /\ HasStock(invBefore, p) = HasStock(products, p)
            /\ HasStock(products, p) =>
                  products[p].stock
                      = invBefore[p].stock
                        - BatchQuantity([i \in DOMAIN invBatch |->
                              [invBatch[i] EXCEPT !.update = "ok"]], p)
            /\ ~HasStock(products, p) => products[p] = invBefore[p]

\* one message takes the stock below zero
C21_Witness ==
    /\ Len(invBatch) = 1
    /\ Applies(invBatch[1])
    /\ Len(invBatch[1].items) = 2
    /\ invBefore["p1"].stock >= 0
    /\ products["p1"].stock < 0
    /\ products["p1"].stock = invBefore["p1"].stock - Quantity(invBatch[1].items, "p1")

Failed(i) == ~Applies(invBatch[i])

\* C22: a record whose processing fails is counted as failed and the other
\* records of the batch are processed all the same: successful is the number
\* of records that went through, failed the number of those that did not,
\* their sum is the number of records, and the stock shows the effect of
\* every record, also of those after a failed one.
C22_FailureIsolation ==
    invBatch # <<>> =>
        /\ invResult.statusCode = 200
        /\ invResult.processed = Len(invBatch)
        /\ invResult.failed = Cardinality({i \in DOMAIN invBatch : Failed(i)})
        /\ invResult.successful
              = Cardinality({i \in DOMAIN invBatch : ~Failed(i)})
        /\ invResult.successful + invResult.failed = Len(invBatch)
        /\ \A p \in Catalog : HasStock(invBefore, p) =>
              products[p].stock = invBefore[p].stock - BatchQuantity(invBatch, p)

\* the first record fails, the second is applied
C22_Witness ==
    /\ Len(invBatch) = 2
    /\ Failed(1)
    /\ ~Failed(2)
    /\ invResult.failed = 1
    /\ invResult.successful = 1
    /\ products["p1"].stock
          = invBefore["p1"].stock - Quantity(invBatch[2].items, "p1")
    /\ Quantity(invBatch[2].items, "p1") > 0

\* the run handed the record back to the queue: the handler raised, or its
\* response lists the record among the batch item failures
HandedBack(i) ==
    \/ invResult.statusCode # 200
    \/ /\ "batchItemFailures" \in DOMAIN invResult
       /\ i \in invResult.batchItemFailures

\* C23: a record whose processing fails is not acknowledged: the run hands it
\* back to the queue, which redelivers it and parks it in the dead-letter
\* queue after the bounded number of receives.
C23_FailedIsRedelivered ==
    \A i \in DOMAIN invBatch : Failed(i) => HandedBack(i)

\* the attributes of an item other than the fraud fields and the status
Rest(o) ==
    [a \in (DOMAIN o) \ {"fraud_score", "fraud_status", "status"} |-> o[a]]

\* C24: however a fraud update and a status transition of the same Order
\* are interleaved, the Order afterwards has the status the transition wrote
\* and the fraud fields the fraud update wrote; neither update removes or
\* changes the other's field or any other attribute.
C24_BothFieldsKept ==
    /\ \A u \in statusUpdates :
          \E o \in orders :
              /\ o.order_id = u.order_id
              /\ "status" \in DOMAIN o
              /\ o.status = u.status
    /\ (Len(fraudBatch) = 1 /\ UpdateOk(fraudBatch[1])) =>
          FraudFields(orders, fraudBatch[1].order_id)
              = {[score |-> Score(fraudBatch[1]),
                  status |-> Verdict(fraudBatch[1])]}
    /\ \A o \in orders :
          "status" \in DOMAIN o => Rest(o) = Rest(SeedOrder(o.order_id))

\* the transition came first and the fraud update second, and the converse
\* on the other Order
C24_Witness ==
    /\ [order_id |-> 1, status |-> "shipped"] \in statusUpdates
    /\ [order_id |-> 2, status |-> "cancelled"] \in statusUpdates
    /\ Len(fraudBatch) = 1
    /\ fraudBatch[1].order_id = 1
    /\ UpdateOk(fraudBatch[1])
    /\ \E o \in fraudBefore :
          /\ o.order_id = 1 /\ o.status = "shipped"
          /\ "fraud_score" \notin DOMAIN o
    /\ \E o \in fraudBefore :
          /\ o.order_id = 2 /\ o.status = "confirmed"
          /\ "fraud_score" \in DOMAIN o
    /\ \E o \in orders :
          /\ o.order_id = 1 /\ o.status = "shipped"
          /\ o.fraud_status = Verdict(fraudBatch[1])
    /\ \E o \in orders :
          /\ o.order_id = 2 /\ o.status = "cancelled"
          /\ "fraud_score" \in DOMAIN o

RECURSIVE SubtotalSum(_)
SubtotalSum(items) ==
    IF items = <<>> THEN 0
    ELSE Head(items).subtotal.v + SubtotalSum(Tail(items))

OrderFields == {"total_amount", "items", "customer_id"}
\* the value of an attribute of the item with this id (empty if none)
Field(table, id, a) ==
    {o[a] : o \in {x \in table : x.order_id = id /\ a \in DOMAIN x}}

\* the steps of the three writers
CreateOrderStep == pc = "persist" /\ pc' = "publish"
FraudStep == fraudDelivered' = fraudDelivered + 1
InventoryStep == invDelivered' = invDelivered + 1

\* one step of the system as the frame allows it
FrameStep ==
    /\ \A id \in OrderIds, a \in OrderFields :
          /\ Field(orders, id, a) # {} =>
                Field(orders', id, a) = Field(orders, id, a)
          /\ Field(orders', id, a) # Field(orders, id, a) =>
                /\ CreateOrderStep
                /\ id = order_id'
                /\ \A o \in orders : o.order_id # id
    /\ \A o \in orders' :
          "total_amount" \in DOMAIN o =>
              /\ o.total_amount = Dec(SubtotalSum(o.items))
              /\ o.total_amount = Dec(ExactSum(o.items))
    /\ \A id \in OrderIds :
          FraudFields(orders', id) # FraudFields(orders, id) => FraudStep
    /\ products' # products => InventoryStep
    /\ CreateOrderStep => products' = products
    /\ FraudStep => products' = products

\* C25: the total, the items and the customer of an Order are written by
\* create_order when it stores the Order and by no later step, and the total
\* is the sum of the subtotals of the items; the fraud score and the fraud
\* status of an item change only in a run of the fraud consumer; the stock of
\* a product changes only in a run of the inventory consumer.
C25_SingleWriter == [][FrameStep]_vars

\* all three writers have written: a stored Order with its fraud fields, and
\* a stock below the seeded one
C25_Witness ==
    /\ \E o \in orders :
          /\ "total_amount" \in DOMAIN o
          /\ "fraud_score" \in DOMAIN o
          /\ Len(o.items) = 2
    /\ products["p1"].stock < INITIAL_STOCK

\* MODIFY records that carry both images
Modifies ==
    {i \in DOMAIN streamBatch :
        /\ streamBatch[i].eventName = "MODIFY"
        /\ {"OldImage", "NewImage"} \subseteq DOMAIN streamBatch[i].dynamodb}
OldStatus(i) == Get(streamBatch[i].dynamodb.OldImage, "status", "unknown")
NewStatus(i) == Get(streamBatch[i].dynamodb.NewImage, "status", "unknown")
OldScore(i) == Get(streamBatch[i].dynamodb.OldImage, "fraud_score", NoScore)
NewScore(i) == Get(streamBatch[i].dynamodb.NewImage, "fraud_score", NoScore)
\* how many times the run made this call for record i
Calls(i, name) ==
    Cardinality({k \in DOMAIN streamEffects :
                    streamEffects[k].record = i /\ streamEffects[k].call = name})

\* C26: for a MODIFY record the processor triggers the shipment side effect
\* exactly once if the old and the new status differ and the new one is
\* shipped, the cancellation side effect exactly once if they differ and the
\* new one is cancelled, and in every other case neither.
C26_StatusDiff ==
    \A i \in Modifies :
        /\ Calls(i, "handle_order_shipped")
              = IF OldStatus(i) # NewStatus(i) /\ NewStatus(i) = "shipped"
                THEN 1 ELSE 0
        /\ Calls(i, "handle_order_cancelled")
              = IF OldStatus(i) # NewStatus(i) /\ NewStatus(i) = "cancelled"
                THEN 1 ELSE 0

\* a batch with a record that stays shipped and one that becomes shipped
C26_Witness ==
    /\ Len(streamBatch) = 2
    /\ Modifies = {1, 2}
    /\ OldStatus(1) = "shipped" /\ NewStatus(1) = "shipped"
    /\ OldStatus(2) = "confirmed" /\ NewStatus(2) = "shipped"
    /\ Calls(1, "handle_order_shipped") = 0
    /\ Calls(2, "handle_order_shipped") = 1

\* C27: for a MODIFY record the processor flags the Order for review exactly
\* when the new image has a fraud score that is at least the configured risk
\* threshold, the one the fraud consumer uses, and differs from the old
\* score, whether or not the status changed.
C27_ReviewAtThreshold ==
    \A i \in Modifies :
        Calls(i, "review") =
            IF /\ NewScore(i) # NoScore
               /\ NewScore(i) >= configured.RISK_THRESHOLD
               /\ NewScore(i) # OldScore(i)
            THEN 1 ELSE 0

Terminal == {"shipped", "cancelled"}

\* C28: the processor accepts every status change it observes: a MODIFY
\* record is processed without an error whatever its old and new status are,
\* and one that leaves a terminal status triggers the side effect of its new
\* status like any other.
C28_AnyTransitionAccepted ==
    /\ streamBatch # <<>> => streamResult.statusCode = 200
    /\ \A i \in Modifies :
          /\ Calls(i, "error") = 0
          /\ (OldStatus(i) \in Terminal /\ NewStatus(i) # OldStatus(i)) =>
                /\ NewStatus(i) = "shipped" =>
                      Calls(i, "handle_order_shipped") = 1
                /\ NewStatus(i) = "cancelled" =>
                      Calls(i, "handle_order_cancelled") = 1

\* shipped back to confirmed, and cancelled on to shipped
C28_Witness ==
    /\ Len(streamBatch) = 2
    /\ Modifies = {1, 2}
    /\ OldStatus(1) = "shipped" /\ NewStatus(1) = "confirmed"
    /\ OldStatus(2) = "cancelled" /\ NewStatus(2) = "shipped"
    /\ Calls(1, "error") = 0
    /\ Calls(2, "handle_order_shipped") = 1
    /\ streamResult.modifies = 2

\* the payload a record carries, whatever its shape
Payload(record) ==
    IF "Sns" \in DOMAIN record THEN record.Sns.Message
    ELSE IF "Message" \in DOMAIN record.body THEN record.body.Message
         ELSE record.body
\* the lookup for record i of the email batch was served and found nothing
Missed(i) ==
    /\ emailBatch[i].lookup = "ok"
    /\ GetItem(orders,
               [order_id |-> Payload(emailBatch[i]).order_id,
                timestamp |-> Get(Payload(emailBatch[i]), "timestamp", 0)]) = {}

\* C29: a record whose Order lookup finds nothing gets no email and no error,
\* and the run goes on: every record of the batch is handled, those after
\* the miss included, and the handler returns 200 for the whole batch.
C29_MissIsSkipped ==
    emailBatch # <<>> =>
        /\ emailResult = [statusCode |-> 200, processed |-> Len(emailBatch)]
        /\ Len(emailLog) = Len(emailBatch)
        /\ \A i \in DOMAIN emailBatch :
              /\ Missed(i) <=> emailLog[i].outcome = "not_found"
              /\ emailLog[i].outcome = "sent" =>
                    (emailBatch[i].lookup = "ok" /\ ~Missed(i))

\* a miss followed by a record whose Order is found and mailed
C29_Witness ==
    /\ Len(emailBatch) = 2
    /\ Missed(1)
    /\ emailLog[1].outcome = "not_found"
    /\ emailLog[2].outcome = "sent"
    /\ emailResult.processed = 2

\* what a consumer took from the payload
Extracts(entry, payload) ==
    /\ {"order_id", "customer_id", "event_type"} \subseteq DOMAIN entry
    /\ entry.order_id = payload.order_id
    /\ entry.customer_id = payload.customer_id
    /\ entry.event_type = payload.event_type

\* C30: the email consumer and the analytics consumer take the same order
\* id, customer id and event type from a record, those of its payload, and
\* do for a record what they do for the same payload in the other shape,
\* whether the record carries the payload itself or the notification
\* envelope around it.
C30_SameForBothShapes ==
    /\ \A i \in DOMAIN emailBatch :
          /\ Extracts(emailLog[i], Payload(emailBatch[i]))
          /\ emailLog[i]
                = EmailRecord(orders, WithLookup(Raw(Payload(emailBatch[i])),
                                                 emailBatch[i].lookup))
    /\ \A i \in DOMAIN analyticsBatch :
          /\ Extracts(analyticsLog[i], Payload(analyticsBatch[i]))
          /\ analyticsLog[i]
                = AnalyticsRecord(Notification(Payload(analyticsBatch[i])))

\* the records of the analytics batch that carry an order_created event of
\* this customer in the notification envelope
CreatedFor(c) ==
    {i \in DOMAIN analyticsBatch :
        /\ "Sns" \in DOMAIN analyticsBatch[i]
        /\ Payload(analyticsBatch[i]).event_type = "order_created"
        /\ Payload(analyticsBatch[i]).customer_id = c}
\* the daily aggregate of a customer: the sum of the metrics the run computed
RECURSIVE SumOver(_, _, _)
SumOver(log, c, field) ==
    IF log = <<>> THEN 0
    ELSE (IF Head(log).outcome = "processed" /\ Head(log).customer_id = c
          THEN (IF field = "revenue" THEN Head(log).revenue.v
                ELSE Head(log).orders_count)
          ELSE 0)
         + SumOver(Tail(log), c, field)
RECURSIVE SumAmounts(_, _)
SumAmounts(batch, is) ==
    IF is = {} THEN 0
    ELSE LET i == CHOOSE x \in is : TRUE
         IN  Payload(batch[i]).total_amount.v + SumAmounts(batch, is \ {i})

\* C31: every delivered order_created event adds one order and its amount to
\* the daily aggregate of its customer, a second delivery of the same event
\* adds them a second time; an event of another type adds nothing.
C31_DuplicateCountsTwice ==
    /\ \A c \in Customers :
          /\ SumOver(analyticsLog, c, "orders_count")
                = Cardinality(CreatedFor(c))
          /\ SumOver(analyticsLog, c, "revenue")
                = SumAmounts(analyticsBatch, CreatedFor(c))
    /\ \A i \in DOMAIN analyticsBatch :
          ("Sns" \in DOMAIN analyticsBatch[i]
              /\ Payload(analyticsBatch[i]).event_type # "order_created")
          => analyticsLog[i].outcome = "skipped"

\* the same event twice in one batch
C31_Witness ==
    /\ Len(analyticsBatch) = 2
    /\ analyticsBatch[1] = analyticsBatch[2]
    /\ CreatedFor("c1") = {1, 2}
    /\ SumOver(analyticsLog, "c1", "orders_count") = 2
    /\ SumOver(analyticsLog, "c1", "revenue")
          = 2 * Payload(analyticsBatch[1]).total_amount.v

\* GET /orders was answered with a page
Listed ==
    /\ pc = "done"
    /\ "route" \in DOMAIN req
    /\ result.statusCode = 200
Page == result.orders
InPage(o) == \E i \in DOMAIN Page : Page[i] = o

\* C32: the page list_orders returns holds only stored orders of the
\* customer asked for, at most 20 of them, each once, ordered strictly from
\* the newest to the oldest; an order of the customer that is not in the page
\* is older than every order in it, so with more than 20 orders the page is
\* the 20 newest.
C32_NewestTwenty ==
    Listed =>
        /\ result.count = Len(Page)
        /\ Len(Page) <= QUERY_LIMIT
        /\ Len(Page) = Min(QUERY_LIMIT,
                           Cardinality(Query(orders, req.customer_id)))
        /\ \A i \in DOMAIN Page :
              /\ Page[i] \in orders
              /\ Page[i].customer_id = req.customer_id
        /\ \A i, j \in DOMAIN Page :
              i < j => Page[i].created_at > Page[j].created_at
        /\ \A o \in Query(orders, req.customer_id) :
              ~InPage(o) => \A i \in DOMAIN Page :
                               Page[i].created_at > o.created_at

\* a customer with more than 20 orders, among orders of another customer
C32_Witness ==
    /\ Listed
    /\ Cardinality(Query(orders, req.customer_id)) > QUERY_LIMIT
    /\ Query(orders, "new-c2") # {}
    /\ req.customer_id = "c1"
    /\ Len(Page) = QUERY_LIMIT
    /\ \E o \in Query(orders, "c1") : ~InPage(o)

\* a step that serves GET /orders
ListStep == pc = "idle" /\ pc' = "done" /\ "route" \in DOMAIN req'

\* C33: serving GET /orders, with a page, with 400 for a missing customer_id
\* or with an error, changes neither the orders table nor the products table
\* nor the published events nor the queued messages.
C33_PureRead ==
    [][ListStep => /\ orders' = orders
                   /\ products' = products
                   /\ topic' = topic
                   /\ queue' = queue]_vars

\* a page served from a table with an order, after an event was published
\* and stock was decremented
C33_Witness ==
    /\ Listed
    /\ Len(Page) > 0
    /\ orders = before.orders
    /\ topic # <<>>
    /\ products["p1"].stock < INITIAL_STOCK

\* the 400 of GET /orders, with an order in the table
C33_WitnessInvalid ==
    /\ pc = "done"
    /\ "route" \in DOMAIN req
    /\ result = Response(400, "customer_id required")
    /\ orders # {}

\* the records of each batch whose processing raises
FraudRaises(i) == ~Parses(fraudBatch[i]) \/ fraudBatch[i].update # "ok"
EmailRaises(i) ==
    "body" \notin DOMAIN emailBatch[i] \/ emailBatch[i].lookup # "ok"
StreamRaises(i) ==
    LET record == streamBatch[i]
    IN  \/ record.eventName = "MODIFY"
           /\ ~({"OldImage", "NewImage"} \subseteq DOMAIN record.dynamodb)
        \/ record.eventName = "INSERT"
           /\ "customer_id" \notin DOMAIN record.dynamodb.NewImage
\* the last record of the fraud batch that writes this order
LastFor(id) ==
    {i \in DOMAIN fraudBatch :
        /\ ~FraudRaises(i) /\ fraudBatch[i].order_id = id
        /\ \A j \in DOMAIN fraudBatch :
              (j > i /\ ~FraudRaises(j)) => fraudBatch[j].order_id # id}

\* C34: in the fraud, email and stream consumers a record whose processing
\* raises does not stop the batch: every other record, before or after it,
\* is processed as it would be alone, and the handler returns 200 with
\* processed equal to the number of records.
C34_BatchGoesOn ==
    /\ fraudBatch # <<>> =>
          /\ fraudResult.statusCode = 200
          /\ fraudResult.processed = Len(fraudBatch)
          /\ fraudResult.high_risk + fraudResult.low_risk
                = Cardinality({i \in DOMAIN fraudBatch : Parses(fraudBatch[i])})
          /\ \A id \in {1, 2} : \A i \in LastFor(id) :
                FraudFields(orders, id)
                    = {[score |-> Score(fraudBatch[i]),
                        status |-> Verdict(fraudBatch[i])]}
    /\ emailBatch # <<>> =>
          /\ emailResult = [statusCode |-> 200, processed |-> Len(emailBatch)]
          /\ Len(emailLog) = Len(emailBatch)
          /\ \A i \in DOMAIN emailBatch :
                IF EmailRaises(i) THEN emailLog[i].outcome = "error"
                ELSE emailLog[i].outcome
                         = IF Missed(i) THEN "not_found" ELSE "sent"
    /\ streamBatch # <<>> =>
          /\ streamResult.statusCode = 200
          /\ streamResult.processed = Len(streamBatch)
          /\ \A i \in DOMAIN streamBatch :
                /\ Calls(i, "error") = IF StreamRaises(i) THEN 1 ELSE 0
                /\ (~StreamRaises(i) /\ streamBatch[i].eventName = "INSERT")
                      => Calls(i, "update_customer_cache") = 1
                /\ (i \in Modifies /\ OldStatus(i) # NewStatus(i)
                       /\ NewStatus(i) = "shipped")
                      => Calls(i, "handle_order_shipped") = 1

\* a change record that raises, followed by one that is processed
C34_Witness ==
    /\ Len(streamBatch) = 2
    /\ StreamRaises(1)
    /\ Calls(1, "error") = 1
    /\ 2 \in Modifies
    /\ Calls(2, "handle_order_shipped") = 1
    /\ streamResult = [statusCode |-> 200, processed |-> 2, inserts |-> 0,
                        modifies |-> 2, removes |-> 0]

\* an unparseable fraud record followed by one that is scored and written
C34_WitnessFraud ==
    /\ Len(fraudBatch) = 2
    /\ ~Parses(fraudBatch[1])
    /\ ~FraudRaises(2)
    /\ FraudFields(orders, fraudBatch[2].order_id) # {}
    /\ fraudResult.processed = 2

Visible(i) ==
    \E o \in orders :
        /\ o.order_id = Payload(emailBatch[i]).order_id
        /\ "total_amount" \in DOMAIN o

\* C36: when the email consumer handles an event create_order published and
\* the Order of that event is in the table, its lookup finds the Order and an
\* email is sent.
C36_VisibleOrderIsMailed ==
    \A i \in DOMAIN emailBatch :
        (emailBatch[i].lookup = "ok" /\ Visible(i))
            => emailLog[i].outcome = "sent"

\* the gateway answered the payment call of this invocation with status 200
ReportedSuccess == Made("payment") /\ env.pay \in {"ok", "badbody"}

\* C37: an invocation whose payment call the gateway answered with success
\* goes on to the write of the Order; create_order answers 502 or 504 only
\* when the gateway reported no successful charge.
C37_SuccessProceeds ==
    /\ (pc = "done" /\ result.statusCode \in {502, 504}) => ~ReportedSuccess
    /\ ReportedSuccess => (pc = "persist" \/ Made("put_item"))

\* the position of the first item of a message on which the consumer fails,
\* 0 when it fails on none
FirstFailure(msg) ==
    LET bad == {i \in DOMAIN msg.items :
                   \/ ~ItemWellFormed(msg.items[i])
                   \/ ~HasStock(invBefore, msg.items[i].product_id)}
    IN  IF msg.update # "ok" THEN 1
        ELSE IF bad = {} THEN 0
        ELSE CHOOSE k \in bad : \A j \in bad : k <= j

\* the items before the first failure
Earlier(msg) ==
    IF FirstFailure(msg) = 0 THEN msg.items
    ELSE SubSeq(msg.items, 1, FirstFailure(msg) - 1)

RECURSIVE EarlierQuantity(_, _)
EarlierQuantity(batch, p) ==
    IF batch = <<>> THEN 0
    ELSE Quantity(Earlier(Head(batch)), p) + EarlierQuantity(Tail(batch), p)

\* C38: when the inventory consumer fails on item k of a message, the
\* decrements of items 1..k-1 stay in place, item k and the items after it are
\* not applied, and the message adds exactly one to the count of failed
\* records.
C38_PartialFailureStays ==
    invBatch # <<>> =>
        /\ \A p \in Catalog : HasStock(invBefore, p) =>
              products[p].stock = invBefore[p].stock - EarlierQuantity(invBatch, p)
        /\ \A p \in Catalog : ~HasStock(invBefore, p) => products[p] = invBefore[p]
        /\ invResult.failed
              = Cardinality({i \in DOMAIN invBatch : FirstFailure(invBatch[i]) > 0})
        /\ invResult.successful = Len(invBatch) - invResult.failed

\* a message of two items that fails on the second: the decrement of the
\* first is in place
C38_Witness ==
    /\ Len(invBatch) = 1
    /\ Len(invBatch[1].items) = 2
    /\ FirstFailure(invBatch[1]) = 2
    /\ invBatch[1].items[1].product_id = "p1"
    /\ products["p1"].stock = invBefore["p1"].stock - invBatch[1].items[1].quantity
    /\ products["p1"].stock < invBefore["p1"].stock
    /\ invResult.failed = 1
    /\ invResult.successful = 0

\* the items a worker has applied so far
Done(w) == SubSeq(workers[w].items, 1, workers[w].i - 1)

\* C39: two inventory workers that run side by side lose no update: at every
\* point of every interleaving the stock of a product is the initial stock
\* minus the quantities of the updates the two workers have made for it, and
\* when both have processed their messages it is the initial stock minus the
\* sum of both quantities.
C39_NoLostUpdate ==
    /\ \A p \in Catalog : HasStock(SeededProducts, p) =>
          products[p].stock
              = SeededProducts[p].stock - (Quantity(Done(1), p) + Quantity(Done(2), p))
    /\ (\A w \in Workers : workers[w].status = "done" /\ workers[w].ok) =>
          \A p \in Catalog : HasStock(SeededProducts, p) =>
              products[p].stock
                  = INITIAL_STOCK - (Quantity(workers[1].items, p)
                                     + Quantity(workers[2].items, p))

\* both workers were running at the same time, each with two updates of p1,
\* and both are through
C39_Witness ==
    /\ \A w \in Workers :
          /\ workers[w].status = "done"
          /\ workers[w].ok
          /\ Len(workers[w].items) = 2
          /\ Quantity(workers[w].items, "p1") >= 3
    /\ invBefore = SeededProducts
    /\ products["p1"].stock < 0
    /\ products["p1"].stock
          = INITIAL_STOCK - Quantity(workers[1].items, "p1")
                          - Quantity(workers[2].items, "p1")

\* C40: for one Order and given messages (the jitter is part of the fraud
\* record), the orders table and the products table do not depend on the order
\* in which the inventory, fraud, email and analytics consumers run: the
\* orders table is what the fraud consumer alone makes of the initial table,
\* the products table what the inventory consumer alone makes of the initial
\* stock, whichever consumers ran before, between or after them.
C40_OrderIndependent ==
    /\ orders = IF fraudDelivered = 0 THEN {PipelineOrder}
                ELSE FraudRecord({PipelineOrder}, fraudBatch[1])
    /\ products = IF invDelivered = 0 THEN SeededProducts
                  ELSE UpdateItems(SeededProducts, invBatch[1].items,
                                   invBatch[1].update).table

\* the four consumers have run, the fraud consumer has written the Order, the
\* inventory consumer the stock, and the email consumer has found the Order
C40_Witness ==
    /\ fraudDelivered = 1 /\ invDelivered = 1
    /\ emailDelivered = 1 /\ analyticsDelivered = 1
    /\ orders # {PipelineOrder}
    /\ products # SeededProducts
    /\ emailLog[1].outcome = "sent"
    /\ \E o \in orders : "fraud_status" \in DOMAIN o

====
